---- MODULE Spec2Model ----
(***************************************************************************)
(* Authentication and session core of parag3638/AuthBackend:               *)
(* controllers/authcontroller.js (OTP login, registration, password reset) *)
(* and middleware/auth.js (session validation).                            *)
(*                                                                         *)
(* Time is in milliseconds (Date.now()).  A request handler is a process   *)
(* p; every await on the store is one step of the process, so that two     *)
(* handlers can interleave exactly where the code can.  The sequential     *)
(* specifications run one handler at a time, the concurrent ones two.      *)
(***************************************************************************)
EXTENDS Integers, Sequences, FiniteSets, TLC

\* ---------------------------------------------------------------- bounds
NumCodes == 2      \* distinct OTP values generateOtp can draw in the model
MaxOtps  == 2      \* rows the login_otps table may hold

\* ------------------------------------------------------ program constants
OTP_TTL_MIN    == 10
MAX_ATTEMPTS   == 5
SKEW_MS        == 120000
JWT_EXPIRES_S  == 3600
RESET_EXPIRES_S == 900

Procs     == {1, 2}
Emails    == {"alice@x.com"}
Passwords == {"Pw1", "Pw2"}
Codes     == 1..NumCodes
NULL      == -1          \* SQL null of a timestamp column

\* ------------------------------------------------------------ pure helpers
\* bcrypt.hash / bcrypt.compare: a salted one-way digest; compare succeeds
\* exactly for the secret that was hashed, and fails for a sentinel digest.
bcryptHash(secret) == [alg |-> "bcrypt", of |-> secret]
bcryptCompare(secret, digest) == digest = bcryptHash(secret)
\* a column value that is no bcrypt digest ('$pending$', '$google$')
Sentinel(text) == [alg |-> "none", of |-> text]

\* email.split('@')[0]
LocalPart(email) == IF email = "alice@x.com" THEN "alice" ELSE "user"

minutesFromNow(t, m) == t + m * 60 * 1000

\* jwt.sign: iat is the clock in whole seconds, exp = iat + expiresIn
NoToken == [sub |-> 0, role |-> "", email |-> "", name |-> "", purpose |-> "",
            iat |-> 0, exp |-> 0, sig |-> "none"]
signJwt(user, uid, t) ==
    [sub |-> uid, role |-> user.role, email |-> user.email, name |-> user.name,
     purpose |-> "", iat |-> t \div 1000, exp |-> (t \div 1000) + JWT_EXPIRES_S,
     sig |-> "JWT_SECRET"]

VARIABLES
    now,                    \* Date.now()
    app_users,              \* table app_users, row id = index
    pending_registrations,  \* table pending_registrations, one row per email
    login_otps,             \* table login_otps in created_at order, id = index
    pc,                     \* per handler process: the await it is at
    loc,                    \* per handler process: its locals and its response
    client,                 \* what the user agent holds: access_token cookie, reset_token
    otpAudit,               \* per login_otps row: compares made, wrong codes seen, ok returned
    userAudit,              \* per app_users row: the request that inserted it, the first
                            \* google_sub stored, the reset tokens that changed its password
    last,                   \* the response the caller received last
    redeemed                \* authorization codes the provider has exchanged

vars == <<now, app_users, pending_registrations, login_otps, pc, loc,
          client, otpAudit, userAudit, last, redeemed>>

\* ----------------------------------------------------------- store access
\* findUserByEmail: the row id of the user with that email, 0 for "no rows"
findUserByEmail(email) ==
    IF \E i \in 1..Len(app_users) : app_users[i].email = email
    THEN CHOOSE i \in 1..Len(app_users) : app_users[i].email = email
    ELSE 0

\* the select of verifyAndConsumeOtp: most recent unconsumed row, 0 for none
LatestAnyOtp(uid, purpose) ==
    LET S == {i \in 1..Len(login_otps) :
                 /\ login_otps[i].user_id = uid
                 /\ login_otps[i].purpose = purpose}
    IN IF S = {} THEN 0 ELSE CHOOSE i \in S : \A j \in S : j <= i

LatestUnconsumedOtpAnyPurpose(uid, purpose) ==
    LET S == {i \in 1..Len(login_otps) :
                 /\ login_otps[i].user_id = uid
                 /\ login_otps[i].consumed_at = NULL}
    IN IF S = {} THEN 0 ELSE CHOOSE i \in S : \A j \in S : j <= i
LatestUnconsumedOtp(uid, purpose) ==
    LET S == {i \in 1..Len(login_otps) :
                 /\ login_otps[i].user_id = uid
                 /\ login_otps[i].purpose = purpose
                 /\ login_otps[i].consumed_at = NULL}
    IN IF S = {} THEN 0 ELSE CHOOSE i \in S : \A j \in S : j <= i

\* `new Date(rec.expires_at) < now()`
OtpExpiredInclusive(row, t) == row.expires_at <= t
OtpExpired(row, t) == row.expires_at < t

AttemptsCappedOffByOne(attempts) == attempts > MAX_ATTEMPTS
AttemptsCapped(attempts) == attempts >= MAX_ATTEMPTS

\* jwt.verify: the signature is ours and the token has not expired
jwtVerify(tok, t) == tok.sig = "JWT_SECRET" /\ (t \div 1000) < tok.exp

\* req.user as the middleware attaches it; NoReqUser when it attached none
NoReqUser == [sub |-> 0, email |-> "", name |-> "", role |-> "", iat |-> 0]

\* ------------------------------------------------------- process plumbing
\* the three transient cookies of the OAuth flow
TempCookies == {"g_state", "g_nonce", "g_mode"}

\* the `state` query parameter and the g_state cookie: absent, not
\* base64url JSON, or the encoded {redirectTo, salt} of googleStart
NoState == [present |-> FALSE, json |-> FALSE, redirectTo |-> "", salt |-> 0]

\* the locals of googleCallback and what its response carries; setState,
\* setNonce and setMode are the transient cookies a googleStart response sets
\* no app_users row
NoUser == [email |-> "", name |-> "", password_hash |-> bcryptHash(""),
           role |-> "", google_sub |-> "", email_verified |-> FALSE,
           password_updated_at |-> 0]

NoG == [code |-> "", popup |-> FALSE, nonceCookie |-> "", rawRedirectTo |-> "",
        stateOk |-> FALSE, exchanged |-> FALSE, verified |-> FALSE, checked |-> FALSE,
        idValid |-> FALSE,
        sub |-> "", email |-> "", name |-> "", existing |-> 0, existingRow |-> NoUser,
        wrote |-> FALSE, cleared |-> {}, error |-> "", errStatus |-> 0,
        setState |-> NoState, setNonce |-> "", setMode |-> "",
        redirect |-> [origin |-> "", pathname |-> ""]]

NoLoc == [h |-> "", email |-> "", otp |-> 0, uid |-> 0, rid |-> 0, att |-> 0,
          match |-> FALSE, v |-> "", status |-> 0, reason |-> "", cookie |-> NoToken,
          body_token |-> NoToken, compared |-> FALSE, consumed |-> FALSE,
          wrongBefore |-> 0, pwOk |-> FALSE, newOtp |-> 0,
          pname |-> "", phash |-> bcryptHash(""), potp |-> bcryptHash(0),
          newUser |-> 0, method |-> "", tok |-> NoToken, reqUser |-> NoReqUser,
          csrfHeader |-> "", csrfCookie |-> "", clearAuth |-> FALSE, g |-> NoG,
          reqCookie |-> NoToken, reqBearer |-> NoToken, usedBefore |-> FALSE]

\* the handler of p answers: res.status(..), cookies, body
Reply(p, l) ==
    /\ pc' = [pc EXCEPT ![p] = "done"]
    /\ loc' = [loc EXCEPT ![p] = l]

\* a transient cookie of the user agent after a response that sets it to
\* `set`, clears it, or leaves it as it `held` it
TempCookieAfter(name, set, absent, l, held) ==
    IF set # absent THEN set
    ELSE IF name \in l.g.cleared THEN absent
    ELSE held

\* the client receives the response; the process is free for the next request.
\* `issued` counts the sessions callbacks have set since the last googleStart
Respond(p) ==
    /\ pc[p] = "done"
    /\ pc' = [pc EXCEPT ![p] = "idle"]
    /\ loc' = [loc EXCEPT ![p] = NoLoc]
    /\ client' = [access_token |-> IF loc[p].cookie # NoToken THEN loc[p].cookie
                                   ELSE IF loc[p].clearAuth THEN NoToken
                                   ELSE client.access_token,
                  reset_token  |-> IF loc[p].body_token # NoToken THEN loc[p].body_token
                                   ELSE client.reset_token,
                  g_state |-> TempCookieAfter("g_state", loc[p].g.setState, NoState,
                                              loc[p], client.g_state),
                  g_nonce |-> TempCookieAfter("g_nonce", loc[p].g.setNonce, "",
                                              loc[p], client.g_nonce),
                  g_mode  |-> TempCookieAfter("g_mode", loc[p].g.setMode, "",
                                              loc[p], client.g_mode),
                  issued  |-> IF loc[p].h = "googleStart" THEN 0
                              ELSE IF loc[p].h = "googleCallback" /\ loc[p].cookie # NoToken
                              THEN client.issued + 1
                              ELSE client.issued]
    /\ UNCHANGED <<redeemed, now, app_users, pending_registrations, login_otps, otpAudit, userAudit, last>>

\* the response is delivered to a caller that keeps nothing of it
Finish(p) ==
    /\ pc[p] = "done"
    /\ pc' = [pc EXCEPT ![p] = "idle"]
    /\ loc' = [loc EXCEPT ![p] = NoLoc]
    /\ UNCHANGED <<redeemed, now, app_users, pending_registrations, login_otps, client, otpAudit, userAudit, last>>

\* ---------------------------------------------------------------- OTP engine
\* createHashedOtp: insert a row for `code`, the value generateOtp drew
createHashedOtpCapped(uid, purpose, code) ==
    /\ Len(login_otps) < MaxOtps
    /\ login_otps' = Append(login_otps,
           [user_id |-> uid, otp_hash |-> bcryptHash(code), purpose |-> purpose,
            expires_at |-> minutesFromNow(now, OTP_TTL_MIN),
            consumed_at |-> NULL, attempts |-> MAX_ATTEMPTS])
    /\ otpAudit' = Append(otpAudit,
           [oks |-> 0, compares |-> 0, wrongs |-> 0])
createHashedOtp(uid, purpose, code) ==
    /\ Len(login_otps) < MaxOtps
    /\ login_otps' = Append(login_otps,
           [user_id |-> uid, otp_hash |-> bcryptHash(code), purpose |-> purpose,
            expires_at |-> minutesFromNow(now, OTP_TTL_MIN),
            consumed_at |-> NULL, attempts |-> 0])
    /\ otpAudit' = Append(otpAudit,
           [oks |-> 0, compares |-> 0, wrongs |-> 0])

\* POST /login {email, password}
login(p, email, password, code, mailOk) ==
    /\ pc[p] = "idle"
    /\  LET uid == findUserByEmail(email)
            l   == [NoLoc EXCEPT !.h = "login", !.email = email, !.uid = uid]
        IN  IF uid = 0
            THEN /\ Reply(p, [l EXCEPT !.status = 401, !.reason = "Invalid email or user does not exist"])
                 /\ UNCHANGED <<login_otps, otpAudit>>
            ELSE IF ~bcryptCompare(password, app_users[uid].password_hash)
            THEN /\ Reply(p, [l EXCEPT !.status = 401, !.reason = "Invalid password"])
                 /\ UNCHANGED <<login_otps, otpAudit>>
            ELSE /\ createHashedOtp(uid, "login", code)
                 /\ LET m == [l EXCEPT !.pwOk = TRUE, !.newOtp = Len(login_otps) + 1]
                    IN IF mailOk
                       THEN Reply(p, [m EXCEPT !.status = 200, !.reason = "OTP sent to email. Please verify to complete login."])
                       ELSE Reply(p, [m EXCEPT !.status = 500, !.reason = "Login ok, but failed to send OTP"])
    /\ UNCHANGED <<redeemed, now, app_users, pending_registrations, client, userAudit, last>>

\* POST /resend-otp {email}
resendOtp(p, email, code, mailOk) ==
    /\ pc[p] = "idle"
    /\  LET uid == findUserByEmail(email)
            l   == [NoLoc EXCEPT !.h = "resendOtp", !.email = email, !.uid = uid]
        IN  IF uid = 0
            THEN /\ Reply(p, [l EXCEPT !.status = 404, !.reason = "User not found"])
                 /\ UNCHANGED <<login_otps, otpAudit>>
            ELSE /\ createHashedOtp(uid, "login", code)
                 /\ LET m == [l EXCEPT !.newOtp = Len(login_otps) + 1]
                    IN IF mailOk
                       THEN Reply(p, [m EXCEPT !.status = 200, !.reason = "OTP resent"])
                       ELSE Reply(p, [m EXCEPT !.status = 500, !.reason = "Failed to send OTP"])
    /\ UNCHANGED <<redeemed, now, app_users, pending_registrations, client, userAudit, last>>

\* what POST /verify-otp answers once verifyAndConsumeOtp has returned v
OtpFailureMessage(v) ==
    IF v = "expired" THEN "OTP expired"
    ELSE IF v = "too_many_attempts" THEN "Too many attempts"
    ELSE "Invalid OTP"

verifyOtpReplyAlwaysCookie(l, v) ==
    [l EXCEPT !.v = v, !.status = 200, !.reason = "Login successful",
              !.cookie = signJwt(app_users[l.uid], l.uid, now)]
verifyOtpReply(l, v) ==
    IF v # "ok"
    THEN [l EXCEPT !.v = v, !.status = 401, !.reason = OtpFailureMessage(v)]
    ELSE [l EXCEPT !.v = v, !.status = 200, !.reason = "Login successful",
                   !.cookie = signJwt(app_users[l.uid], l.uid, now)]

\* what POST /password-reset/verify answers once verifyAndConsumeOtp has returned v
verifyResetOtpReply(l, v) ==
    IF v # "ok"
    THEN [l EXCEPT !.v = v, !.status = 401, !.reason = OtpFailureMessage(v)]
    ELSE [l EXCEPT !.v = v, !.status = 200, !.reason = "OTP verified",
                   !.body_token = [NoToken EXCEPT
                        !.sub = l.uid, !.purpose = "password_reset",
                        !.iat = now \div 1000,
                        !.exp = (now \div 1000) + RESET_EXPIRES_S,
                        !.sig = "JWT_SECRET"]]

\* what a caller of verifyAndConsumeOtp answers for the outcome v
OtpReply(l, v) ==
    IF l.h = "verifyOtp" THEN verifyOtpReply(l, v) ELSE verifyResetOtpReply(l, v)

PurposeOf(h) == IF h = "verifyOtp" THEN "login" ELSE "reset"

\* POST /verify-otp {email, otp}: findUserByEmail
verifyOtp(p, email, otp) ==
    /\ pc[p] = "idle"
    /\  LET uid == findUserByEmail(email)
            l   == [NoLoc EXCEPT !.h = "verifyOtp", !.email = email,
                                 !.otp = otp, !.uid = uid]
        IN  IF uid = 0
            THEN Reply(p, [l EXCEPT !.status = 401, !.reason = "Invalid email"])
            ELSE /\ pc' = [pc EXCEPT ![p] = "vac_select"]
                 /\ loc' = [loc EXCEPT ![p] = l]
    /\ UNCHANGED <<redeemed, now, app_users, pending_registrations, login_otps,
                   client, otpAudit, userAudit, last>>

\* verifyAndConsumeOtp: the select, the expiry and cap checks, bcrypt.compare
vac_select(p) ==
    /\ pc[p] = "vac_select"
    /\ LET l   == loc[p]
           rid == LatestUnconsumedOtp(l.uid, PurposeOf(l.h))
       IN  IF rid = 0
           THEN /\ Reply(p, OtpReply(l, "invalid"))
                /\ UNCHANGED otpAudit
           ELSE LET m == [l EXCEPT !.rid = rid, !.att = login_otps[rid].attempts,
                                   !.wrongBefore = otpAudit[rid].wrongs]
                IN  IF OtpExpired(login_otps[rid], now)
                    THEN /\ Reply(p, OtpReply(m, "expired"))
                         /\ UNCHANGED otpAudit
                    ELSE IF AttemptsCapped(login_otps[rid].attempts)
                    THEN /\ Reply(p, OtpReply(m, "too_many_attempts"))
                         /\ UNCHANGED otpAudit
                    ELSE LET isMatch == bcryptCompare(l.otp, login_otps[rid].otp_hash)
                         IN /\ pc' = [pc EXCEPT ![p] = "vac_bump"]
                            /\ loc' = [loc EXCEPT ![p] =
                                   [m EXCEPT !.match = isMatch, !.compared = TRUE]]
                            /\ otpAudit' = [otpAudit EXCEPT
                                   ![rid].compares = @ + 1,
                                   ![rid].wrongs = IF isMatch THEN @ ELSE @ + 1]
    /\ UNCHANGED <<redeemed, now, app_users, pending_registrations, login_otps, client, userAudit, last>>

\* verifyAndConsumeOtp: update attempts = rec.attempts + 1
vac_bump(p) ==
    /\ pc[p] = "vac_bump"
    /\ login_otps' = [login_otps EXCEPT ![loc[p].rid].attempts = loc[p].att + 1]
    /\ IF ~loc[p].match
       THEN Reply(p, OtpReply(loc[p], "invalid"))
       ELSE /\ pc' = [pc EXCEPT ![p] = "vac_consume"]
            /\ UNCHANGED loc
    /\ UNCHANGED <<redeemed, now, app_users, pending_registrations, client, otpAudit, userAudit, last>>

\* verifyAndConsumeOtp: update consumed_at = now, return ok
vac_consume(p) ==
    /\ pc[p] = "vac_consume"
    /\ login_otps' = [login_otps EXCEPT ![loc[p].rid].consumed_at = now]
    /\ otpAudit' = [otpAudit EXCEPT ![loc[p].rid].oks = @ + 1]
    /\ Reply(p, OtpReply([loc[p] EXCEPT !.consumed = TRUE], "ok"))
    /\ UNCHANGED <<redeemed, now, app_users, pending_registrations, client, userAudit, last>>

\* ------------------------------------------------------------ registration
PendingRow(email) == pending_registrations[email]

\* the select of verifyRegisterOtp: .eq('email', email).is('consumed_at', null)
PendingUnconsumed(email) ==
    PendingRow(email).present /\ PendingRow(email).consumed_at = NULL

\* step 1 of register: block if an account already exists
RegisterBlockedByPending(email) ==
    findUserByEmail(email) # 0 \/ PendingUnconsumed(email)
RegisterBlocked(email) == findUserByEmail(email) # 0

\* POST /register {name, email, password}
register(p, name, email, password, otp, mailOk) ==
    /\ pc[p] = "idle"
    /\ LET l == [NoLoc EXCEPT !.h = "register", !.email = email]
       IN  IF RegisterBlocked(email)
           THEN /\ Reply(p, [l EXCEPT !.status = 409, !.reason = "User with this email already exists"])
                /\ UNCHANGED pending_registrations
           ELSE /\ pending_registrations' = [pending_registrations EXCEPT ![email] =
                       [email |-> email, name |-> name,
                        password_hash |-> bcryptHash(password),
                        otp_hash |-> bcryptHash(otp),
                        expires_at |-> minutesFromNow(now, OTP_TTL_MIN),
                        attempts |-> 0, consumed_at |-> NULL, present |-> TRUE]]
                /\ IF mailOk
                   THEN Reply(p, [l EXCEPT !.status = 200, !.reason = "OTP sent to email. Please verify to complete registration."])
                   ELSE Reply(p, [l EXCEPT !.status = 500, !.reason = "Server error"])
    /\ UNCHANGED <<redeemed, now, app_users, login_otps, client, otpAudit, userAudit, last>>

\* resendRegisterOtp on an existing pending row: new code, attempts 0, new
\* expiry, consumed_at null
RefreshPendingKeepAttempts(row, otp, t) ==
    [row EXCEPT !.otp_hash = bcryptHash(otp),
                !.expires_at = minutesFromNow(t, OTP_TTL_MIN),
                !.consumed_at = NULL]
RefreshPending(row, otp, t) ==
    [row EXCEPT !.otp_hash = bcryptHash(otp), !.attempts = 0,
                !.expires_at = minutesFromNow(t, OTP_TTL_MIN),
                !.consumed_at = NULL]

\* POST /register/resend-otp {email}
resendRegisterOtp(p, email, otp, mailOk) ==
    /\ pc[p] = "idle"
    /\ LET l == [NoLoc EXCEPT !.h = "resendRegisterOtp", !.email = email]
       IN  IF findUserByEmail(email) # 0
           THEN /\ Reply(p, [l EXCEPT !.status = 409, !.reason = "User with this email already exists"])
                /\ UNCHANGED pending_registrations
           ELSE /\ pending_registrations' = [pending_registrations EXCEPT ![email] =
                     IF ~PendingRow(email).present
                     THEN [email |-> email, name |-> LocalPart(email),
                           password_hash |-> Sentinel("$pending$"),
                           otp_hash |-> bcryptHash(otp),
                           expires_at |-> minutesFromNow(now, OTP_TTL_MIN),
                           attempts |-> 0, consumed_at |-> NULL, present |-> TRUE]
                     ELSE RefreshPending(@, otp, now)]
                /\ IF mailOk
                   THEN Reply(p, [l EXCEPT !.status = 200, !.reason = "OTP resent"])
                   ELSE Reply(p, [l EXCEPT !.status = 500, !.reason = "Server error"])
    /\ UNCHANGED <<redeemed, now, app_users, login_otps, client, otpAudit, userAudit, last>>

\* verifyRegisterOtp after the attempts bump: `if (!ok) return 401`
RegisterOtpRejectedNever(ok) == FALSE
RegisterOtpRejected(ok) == ~ok

\* POST /register/verify {email, otp}: fetch pending, expiry, cap, compare
verifyRegisterOtp(p, email, otp) ==
    /\ pc[p] = "idle"
    /\ LET row == PendingRow(email)
           l   == [NoLoc EXCEPT !.h = "verifyRegisterOtp", !.email = email, !.otp = otp,
                                !.att = row.attempts]
       IN  IF ~PendingUnconsumed(email)
           THEN Reply(p, [l EXCEPT !.status = 401, !.reason = "No pending registration or already verified"])
           ELSE IF OtpExpired(row, now)
           THEN Reply(p, [l EXCEPT !.status = 401, !.reason = "OTP expired"])
           ELSE IF AttemptsCapped(row.attempts)
           THEN Reply(p, [l EXCEPT !.status = 429, !.reason = "Too many attempts"])
           ELSE /\ pc' = [pc EXCEPT ![p] = "vr_bump"]
                /\ loc' = [loc EXCEPT ![p] =
                       [l EXCEPT !.att = row.attempts, !.pname = row.name,
                                 !.phash = row.password_hash,
                                 !.potp = row.otp_hash, !.compared = TRUE,
                                 !.match = bcryptCompare(otp, row.otp_hash)]]
    /\ UNCHANGED <<redeemed, now, app_users, pending_registrations, login_otps, client,
                   otpAudit, userAudit, last>>

\* verifyRegisterOtp: update attempts = pending.attempts + 1
vr_bump(p) ==
    /\ pc[p] = "vr_bump"
    /\ pending_registrations' = [pending_registrations EXCEPT
           ![loc[p].email].attempts = loc[p].att + 1]
    /\ IF RegisterOtpRejected(loc[p].match)
       THEN Reply(p, [loc[p] EXCEPT !.status = 401, !.reason = "Invalid OTP"])
       ELSE /\ pc' = [pc EXCEPT ![p] = "vr_find"]
            /\ UNCHANGED loc
    /\ UNCHANGED <<redeemed, now, app_users, login_otps, client, otpAudit, userAudit, last>>

\* verifyRegisterOtp: findUserByEmail before the insert
vr_find(p) ==
    /\ pc[p] = "vr_find"
    /\ pc' = [pc EXCEPT ![p] =
           IF findUserByEmail(loc[p].email) # 0 THEN "vr_conflict" ELSE "vr_insert"]
    /\ UNCHANGED <<redeemed, now, app_users, pending_registrations, login_otps, loc, client,
                   otpAudit, userAudit, last>>

\* verifyRegisterOtp: "Race: someone created already": consume, answer 409
vr_conflictKeepPending(p) ==
    /\ pc[p] = "vr_conflict"
    /\ Reply(p, [loc[p] EXCEPT !.status = 409, !.reason = "User with this email already exists"])
    /\ UNCHANGED <<redeemed, now, app_users, pending_registrations, login_otps, client,
                   otpAudit, userAudit, last>>
vr_conflict(p) ==
    /\ pc[p] = "vr_conflict"
    /\ pending_registrations' = [pending_registrations EXCEPT
           ![loc[p].email].consumed_at = now]
    /\ Reply(p, [loc[p] EXCEPT !.status = 409, !.reason = "User with this email already exists"])
    /\ UNCHANGED <<redeemed, now, app_users, login_otps, client, otpAudit, userAudit, last>>

\* verifyRegisterOtp: insert into app_users; email is unique, a second insert
\* of the same email fails and the handler's catch answers 500
vr_insert(p) ==
    /\ pc[p] = "vr_insert"
    /\ IF findUserByEmail(loc[p].email) # 0
       THEN /\ Reply(p, [loc[p] EXCEPT !.status = 500, !.reason = "Server error"])
            /\ UNCHANGED <<app_users, userAudit>>
       ELSE /\ app_users' = Append(app_users,
                   [email |-> loc[p].email, name |-> loc[p].pname,
                    password_hash |-> loc[p].phash, role |-> "user",
                    google_sub |-> "", email_verified |-> FALSE,
                    password_updated_at |-> now])
            /\ userAudit' = Append(userAudit,
                   [by |-> "verifyRegisterOtp", otp |-> loc[p].otp,
                    otp_hash |-> loc[p].potp, google_sub |-> "", resets |-> {}])
            /\ pc' = [pc EXCEPT ![p] = "vr_consume"]
            /\ loc' = [loc EXCEPT ![p].newUser = Len(app_users) + 1]
    /\ UNCHANGED <<redeemed, now, pending_registrations, login_otps, client, otpAudit, last>>

\* verifyRegisterOtp: mark pending consumed, auto-login, 201
vr_consume(p) ==
    /\ pc[p] = "vr_consume"
    /\ pending_registrations' = [pending_registrations EXCEPT
           ![loc[p].email].consumed_at = now]
    /\ Reply(p, [loc[p] EXCEPT !.status = 201, !.reason = "Registration completed",
                    !.consumed = TRUE,
                    !.cookie = signJwt(app_users[loc[p].newUser], loc[p].newUser, now)])
    /\ UNCHANGED <<redeemed, now, app_users, login_otps, client, otpAudit, userAudit, last>>

\* the response is delivered and the caller remembers what it was, and
\* whether it has ever been answered 429
Deliver(p) ==
    /\ pc[p] = "done"
    /\ pc' = [pc EXCEPT ![p] = "idle"]
    /\ loc' = [loc EXCEPT ![p] = NoLoc]
    /\ last' = [h |-> loc[p].h, email |-> loc[p].email, status |-> loc[p].status,
                capped |-> last.capped \/ loc[p].status = 429]
    /\ UNCHANGED <<redeemed, now, app_users, pending_registrations, login_otps, client,
                   otpAudit, userAudit>>

\* ------------------------------------------------------------ password reset
\* POST /password-reset/request {email}
requestReset(p, email, code, mailOk) ==
    /\ pc[p] = "idle"
    /\ LET uid == findUserByEmail(email)
           l   == [NoLoc EXCEPT !.h = "requestReset", !.email = email, !.uid = uid]
       IN  IF uid = 0
           THEN /\ Reply(p, [l EXCEPT !.status = 200, !.reason = "If that email exists, an OTP has been sent."])
                /\ UNCHANGED <<login_otps, otpAudit>>
           ELSE /\ createHashedOtp(uid, "reset", code)
                /\ LET m == [l EXCEPT !.newOtp = Len(login_otps) + 1]
                   IN IF mailOk
                      THEN Reply(p, [m EXCEPT !.status = 200, !.reason = "If that email exists, an OTP has been sent."])
                      ELSE Reply(p, [m EXCEPT !.status = 500, !.reason = "Server error"])
    /\ UNCHANGED <<redeemed, now, app_users, pending_registrations, client, userAudit, last>>

\* POST /password-reset/verify {email, otp}: findUserByEmail
verifyResetOtp(p, email, otp) ==
    /\ pc[p] = "idle"
    /\ LET uid == findUserByEmail(email)
           l   == [NoLoc EXCEPT !.h = "verifyResetOtp", !.email = email,
                                !.otp = otp, !.uid = uid]
       IN  IF uid = 0
           THEN Reply(p, [l EXCEPT !.status = 401, !.reason = "Invalid email or OTP"])
           ELSE /\ pc' = [pc EXCEPT ![p] = "vac_select"]
                /\ loc' = [loc EXCEPT ![p] = l]
    /\ UNCHANGED <<redeemed, now, app_users, pending_registrations, login_otps,
                   client, otpAudit, userAudit, last>>

\* completeReset: `payload.purpose !== 'password_reset'` rejects
ResetPurposeAny(payload) == TRUE
ResetPurposeOk(payload) == payload.purpose = "password_reset"

\* POST /password-reset/complete {reset_token, new_password}; userAudit keeps
\* the reset tokens that have changed the row's password
completeReset(p, reset_token, new_password) ==
    /\ pc[p] = "idle"
    /\ LET sub == reset_token.sub
           l   == [NoLoc EXCEPT !.h = "completeReset", !.tok = reset_token,
                      !.usedBefore = (sub \in 1..Len(userAudit)
                                      /\ reset_token \in userAudit[sub].resets)]
       IN  IF reset_token = NoToken
           THEN /\ Reply(p, [l EXCEPT !.status = 400, !.reason = "reset_token and new_password are required"])
                /\ UNCHANGED <<app_users, userAudit>>
           ELSE IF ~jwtVerify(reset_token, now)
           THEN /\ Reply(p, [l EXCEPT !.status = 401, !.reason = "Invalid or expired reset token"])
                /\ UNCHANGED <<app_users, userAudit>>
           ELSE IF ~ResetPurposeOk(reset_token)
           THEN /\ Reply(p, [l EXCEPT !.status = 401, !.reason = "Invalid reset token purpose"])
                /\ UNCHANGED <<app_users, userAudit>>
           ELSE /\ app_users' = [i \in 1..Len(app_users) |->
                       IF i = sub
                       THEN [app_users[i] EXCEPT
                               !.password_hash = bcryptHash(new_password),
                               !.password_updated_at = now]
                       ELSE app_users[i]]
                /\ userAudit' = [i \in 1..Len(userAudit) |->
                       IF i = sub
                       THEN [userAudit[i] EXCEPT !.resets = @ \cup {reset_token}]
                       ELSE userAudit[i]]
                /\ Reply(p, [l EXCEPT !.status = 200, !.uid = sub,
                                      !.reason = "Password updated. Please log in again."])
    /\ UNCHANGED <<redeemed, now, pending_registrations, login_otps, client, otpAudit,
                   last>>

\* ------------------------------------------------------- middleware/auth.js
UNSAFE_METHODS == {"POST", "PUT", "PATCH", "DELETE"}

\* the staleness test: pwdUpdatedAtMs - tokenIssuedAtMs > SKEW_MS
TokenStaleSwapped(pwdUpdatedAtMs, iat) == (iat * 1000) - pwdUpdatedAtMs > SKEW_MS
TokenStale(pwdUpdatedAtMs, iat) == pwdUpdatedAtMs - (iat * 1000) > SKEW_MS

\* the double-submit check on unsafe methods
CsrfRejectedIfAbsent(req) ==
    /\ req.method \in UNSAFE_METHODS
    /\ (req.csrfHeader = "" \/ req.csrfCookie = "")
CsrfRejected(req) ==
    /\ req.method \in UNSAFE_METHODS
    /\ (req.csrfHeader = "" \/ req.csrfCookie = "" \/ req.csrfHeader # req.csrfCookie)

\* cookie first, then the Authorization: Bearer header
extractTokenBearerFirst(req) ==
    IF req.bearerTok # NoToken THEN req.bearerTok ELSE req.cookieTok
extractTokenFallThrough(req) ==
    IF req.cookieTok # NoToken /\ jwtVerify(req.cookieTok, now) THEN req.cookieTok
    ELSE IF req.bearerTok # NoToken THEN req.bearerTok
    ELSE req.cookieTok
extractToken(req) == IF req.cookieTok # NoToken THEN req.cookieTok ELSE req.bearerTok

\* "Attach safe user payload to request": identity from the token, role from
\* the stored row
AttachedUserTokenRole(payload, user) ==
    [sub |-> payload.sub, email |-> payload.email, name |-> payload.name,
     role |-> payload.role, iat |-> payload.iat]
AttachedUser(payload, user) ==
    [sub |-> payload.sub, email |-> payload.email, name |-> payload.name,
     role |-> user.role, iat |-> payload.iat]

\* async function auth(req, res, next)
auth(p, req) ==
    /\ pc[p] = "idle"
    /\ LET l   == [NoLoc EXCEPT !.h = "auth", !.method = req.method,
                                !.csrfHeader = req.csrfHeader,
                                !.csrfCookie = req.csrfCookie,
                                !.reqCookie = req.cookieTok,
                                !.reqBearer = req.bearerTok]
           tok == extractToken(req)
           m   == [l EXCEPT !.tok = tok]
       IN  IF req.method = "OPTIONS"
           THEN Reply(p, [l EXCEPT !.v = "next"])
           ELSE IF CsrfRejected(req)
           THEN Reply(p, [l EXCEPT !.status = 403, !.reason = "CSRF validation failed"])
           ELSE IF tok = NoToken
           THEN Reply(p, [l EXCEPT !.status = 401, !.reason = "Not authenticated"])
           ELSE IF ~jwtVerify(tok, now)
           THEN Reply(p, [m EXCEPT !.status = 401, !.reason = "Invalid or expired token"])
           ELSE IF tok.sub \notin 1..Len(app_users)
           THEN Reply(p, [m EXCEPT !.status = 401, !.reason = "User not found"])
           ELSE IF TokenStale(app_users[tok.sub].password_updated_at, tok.iat)
           THEN Reply(p, [m EXCEPT !.status = 401,
                    !.reason = "Token invalid due to password change. Please log in again."])
           ELSE Reply(p, [m EXCEPT !.v = "next", !.uid = tok.sub,
                    !.reqUser = AttachedUser(tok, app_users[tok.sub])])
    /\ UNCHANGED <<redeemed, now, app_users, pending_registrations, login_otps, client,
                   otpAudit, userAudit, last>>

\* POST /logout: clearAuthCookies(res), 204; the router runs the handler with
\* no middleware in front of it
logoutRevoking(p, req) ==
    /\ pc[p] = "idle"
    /\ Reply(p, [NoLoc EXCEPT !.h = "logout", !.method = req.method,
                              !.csrfHeader = req.csrfHeader,
                              !.csrfCookie = req.csrfCookie,
                              !.clearAuth = TRUE, !.status = 204])
    /\ app_users' = [i \in 1..Len(app_users) |->
           IF i = req.cookieTok.sub
           THEN [app_users[i] EXCEPT !.password_updated_at = now + SKEW_MS + 1000]
           ELSE app_users[i]]
    /\ UNCHANGED <<redeemed, now, pending_registrations, login_otps, client,
                   otpAudit, userAudit, last>>
logout(p, req) ==
    /\ pc[p] = "idle"
    /\ Reply(p, [NoLoc EXCEPT !.h = "logout", !.method = req.method,
                              !.csrfHeader = req.csrfHeader,
                              !.csrfCookie = req.csrfCookie,
                              !.clearAuth = TRUE, !.status = 204])
    /\ UNCHANGED <<redeemed, now, app_users, pending_registrations, login_otps, client,
                   otpAudit, userAudit, last>>

\* -------------------------------------------------------- Google OAuth
GOOGLE_CLIENT_ID == "client-id"
GoogleIssuers == {"https://accounts.google.com", "accounts.google.com"}
APP_PUBLIC_URL == "https://app.example"

\* new URL(s).origin for the URLs of the model; "" where new URL(s) throws
UrlOrigin(s) ==
    IF s \in {"https://app.example", "https://app.example/settings"}
    THEN "https://app.example"
    ELSE IF s = "https://evil.example/x" THEN "https://evil.example"
    ELSE ""

\* googleCallback, "Safe redirect resolution inline (updated)"
resolveRedirect(rawRedirectTo) ==
    LET appBase == IF rawRedirectTo # "" THEN rawRedirectTo ELSE APP_PUBLIC_URL
        validAppBase == IF UrlOrigin(appBase) # "" THEN appBase ELSE APP_PUBLIC_URL
    IN  [origin |-> UrlOrigin(validAppBase), pathname |-> "/vaultx/dashboard"]

NoRedirect == [origin |-> "", pathname |-> ""]
LoginPage == [origin |-> UrlOrigin(APP_PUBLIC_URL), pathname |-> "/login"]

\* `!code || !state || !stateCookie || state !== stateCookie`
StateRejectedIfAbsent(req) ==
    req.code = "" \/ ~req.state.present \/ ~req.stateCookie.present
StateRejected(req) ==
    \/ req.code = ""
    \/ ~req.state.present
    \/ ~req.stateCookie.present
    \/ req.state # req.stateCookie

\* finishError: clear the transient cookies, then popup message, redirect or
\* plain status (statusCode 0 stands for "no statusCode option")
finishErrorKeepCookies(l, message, statusCode, redirect) ==
    [l EXCEPT !.g.error = message,
              !.g.errStatus = IF statusCode = 0 THEN 400 ELSE statusCode,
              !.g.redirect = IF l.g.popup THEN NoRedirect ELSE redirect,
              !.status = IF l.g.popup THEN 200
                         ELSE IF redirect # NoRedirect THEN 302
                         ELSE IF statusCode = 0 THEN 400 ELSE statusCode]
finishError(l, message, statusCode, redirect) ==
    [l EXCEPT !.g.cleared = TempCookies,
              !.g.error = message,
              !.g.errStatus = IF statusCode = 0 THEN 400 ELSE statusCode,
              !.g.redirect = IF l.g.popup THEN NoRedirect ELSE redirect,
              !.status = IF l.g.popup THEN 200
                         ELSE IF redirect # NoRedirect THEN 302
                         ELSE IF statusCode = 0 THEN 400 ELSE statusCode]

\* the outer catch of googleCallback
catchError(l) ==
    [l EXCEPT !.g.cleared = TempCookies,
              !.g.error = "Google OAuth exchange/verification failed",
              !.g.errStatus = 500,
              !.status = IF l.g.popup THEN 200 ELSE 500]

\* "Issue session cookie", "Clear temp cookies", redirect or popup message
finishSuccessKeepCookies(l, uid, user) ==
    [l EXCEPT !.uid = uid,
              !.cookie = signJwt(user, uid, now),
              !.g.redirect = resolveRedirect(l.g.rawRedirectTo),
              !.status = IF l.g.popup THEN 200 ELSE 302]
finishSuccess(l, uid, user) ==
    [l EXCEPT !.uid = uid,
              !.cookie = signJwt(user, uid, now),
              !.g.cleared = TempCookies,
              !.g.redirect = resolveRedirect(l.g.rawRedirectTo),
              !.status = IF l.g.popup THEN 200 ELSE 302]

\* GET /google/start (and POST, which reads redirectTo from the body): a fresh
\* state and nonce as transient cookies, g_mode set for a popup and cleared
\* otherwise, then the redirect to the provider
googleStartGet(p, isPopup, redirectTo, rand, nonce) ==
    /\ pc[p] = "idle"
    /\ Reply(p, [NoLoc EXCEPT !.h = "googleStart", !.status = 302,
                  !.g = [NoG EXCEPT
                     !.popup = isPopup,
                     !.setState = [present |-> TRUE, json |-> TRUE,
                                   redirectTo |-> redirectTo, salt |-> rand],
                     !.setNonce = nonce,
                     !.setMode = IF isPopup THEN "popup" ELSE "",
                     !.cleared = IF isPopup THEN {} ELSE {"g_mode"}]])
    /\ UNCHANGED <<redeemed, now, app_users, pending_registrations, login_otps,
                   client, otpAudit, userAudit, last>>

\* GET /google/callback: read the cookies, validate and decode the state
googleCallback(p, req) ==
    /\ pc[p] = "idle"
    /\ LET l == [NoLoc EXCEPT !.h = "googleCallback",
                     !.g = [NoG EXCEPT !.code = req.code,
                                       !.popup = (req.modeCookie = "popup"),
                                       !.nonceCookie = req.nonceCookie,
                                       !.stateOk = (req.state.present /\ req.state = req.stateCookie)]]
       IN  IF StateRejected(req)
           THEN Reply(p, finishError(l, "Invalid OAuth state", 0, LoginPage))
           ELSE IF ~req.state.json
           THEN Reply(p, finishError(l, "Malformed state", 0, LoginPage))
           ELSE /\ pc' = [pc EXCEPT ![p] = "gc_exchange"]
                /\ loc' = [loc EXCEPT ![p] =
                       [l EXCEPT !.g.rawRedirectTo = req.state.redirectTo]]
    /\ UNCHANGED <<redeemed, now, app_users, pending_registrations, login_otps,
                   client, otpAudit, userAudit, last>>

\* the provider's token endpoint exchanges an authorization code once
RedeemableAlways(code) == TRUE
Redeemable(code) == code \notin redeemed

\* the account that granted an authorization code
IdentityOf(code) ==
    IF code = "c1" THEN [sub |-> "g1", email |-> "alice@x.com", name |-> "Alice G"]
    ELSE [sub |-> "g2", email |-> "alice@x.com", name |-> "Alice H"]

\* the identity token names Google as issuer and this client as audience,
\* echoes the g_nonce cookie and carries a verified email
IdentityValid(payload, nonceCookie) ==
    /\ payload.iss \in GoogleIssuers
    /\ payload.aud = GOOGLE_CLIENT_ID
    /\ nonceCookie # "" /\ payload.nonce = nonceCookie
    /\ payload.email # "" /\ payload.email_verified

\* "Extra hardening inline" and the email check: the message of the first
\* check that fails, "" when all pass
IdentityErrorNoNonce(payload, nonceCookie) ==
    IF payload.iss \notin GoogleIssuers THEN "Invalid issuer"
    ELSE IF payload.aud # GOOGLE_CLIENT_ID THEN "Invalid audience"
    ELSE IF payload.email = "" \/ ~payload.email_verified
         THEN "Google account email not verified"
    ELSE ""
IdentityError(payload, nonceCookie) ==
    IF payload.iss \notin GoogleIssuers THEN "Invalid issuer"
    ELSE IF payload.aud # GOOGLE_CLIENT_ID THEN "Invalid audience"
    ELSE IF nonceCookie = "" \/ payload.nonce # nonceCookie THEN "Nonce mismatch"
    ELSE IF payload.email = "" \/ ~payload.email_verified
         THEN "Google account email not verified"
    ELSE ""

\* googleCallback: fetch the token endpoint, verifyIdToken, the payload checks.
\* resp is what the provider answers: threw (the fetch failed), ok, idToken
\* (present), sigOk (verifyIdToken accepts signature, expiry and audience),
\* payload
gc_exchange(p, resp) ==
    /\ pc[p] = "gc_exchange"
    /\ resp.ok => Redeemable(loc[p].g.code)
    /\ LET l   == [loc[p] EXCEPT !.g.exchanged = TRUE,
                      !.g.idValid = (resp.ok /\ resp.idToken /\ resp.sigOk
                                     /\ IdentityValid(resp.payload, loc[p].g.nonceCookie))]
           v   == [l EXCEPT !.g.verified = TRUE]
           err == IdentityError(resp.payload, l.g.nonceCookie)
       IN  IF resp.threw
           THEN /\ Reply(p, catchError(l))
                /\ UNCHANGED redeemed
           ELSE IF ~resp.ok
           THEN /\ Reply(p, finishError(l, "Token exchange failed", 0, LoginPage))
                /\ UNCHANGED redeemed
           ELSE /\ redeemed' = redeemed \cup {l.g.code}
                /\ IF ~resp.idToken
                   THEN Reply(p, finishError(l, "Missing id_token", 401, NoRedirect))
                   ELSE IF ~resp.sigOk \/ resp.payload.aud # GOOGLE_CLIENT_ID
                   THEN Reply(p, catchError(v))
                   ELSE IF err # ""
                   THEN Reply(p, finishError(v, err,
                              IF err = "Google account email not verified" THEN 400 ELSE 401,
                              NoRedirect))
                   ELSE /\ pc' = [pc EXCEPT ![p] = "gc_findSub"]
                        /\ loc' = [loc EXCEPT ![p] =
                               [v EXCEPT !.g.checked = TRUE,
                                         !.g.sub = resp.payload.sub,
                                         !.g.email = resp.payload.email,
                                         !.g.name = resp.payload.name]]
    /\ UNCHANGED <<now, app_users, pending_registrations, login_otps,
                   client, otpAudit, userAudit, last>>

\* findUserByGoogleSub: the row id of the user with that google_sub, 0 for none
findUserByGoogleSub(google_sub) ==
    IF google_sub # "" /\ \E i \in 1..Len(app_users) : app_users[i].google_sub = google_sub
    THEN CHOOSE i \in 1..Len(app_users) : app_users[i].google_sub = google_sub
    ELSE 0

\* googleCallback: user = await findUserByGoogleSub(sub)
gc_findSub(p) ==
    /\ pc[p] = "gc_findSub"
    /\ LET uid == findUserByGoogleSub(loc[p].g.sub)
       IN  IF uid # 0
           THEN Reply(p, finishSuccess(loc[p], uid, app_users[uid]))
           ELSE /\ pc' = [pc EXCEPT ![p] = "gc_findEmail"]
                /\ UNCHANGED loc
    /\ UNCHANGED <<redeemed, now, app_users, pending_registrations, login_otps,
                   client, otpAudit, userAudit, last>>

\* `existing.google_sub && existing.google_sub !== sub`
LinkConflictNever(existingSub, sub) == FALSE
LinkConflict(existingSub, sub) == existingSub # "" /\ existingSub # sub

\* googleCallback: existing = await findUserByEmail(email), the conflict test
gc_findEmail(p) ==
    /\ pc[p] = "gc_findEmail"
    /\ LET uid == findUserByEmail(loc[p].g.email)
           l   == [loc[p] EXCEPT !.g.existing = uid,
                      !.g.existingRow = IF uid = 0 THEN NoUser ELSE app_users[uid]]
       IN  IF uid = 0
           THEN /\ pc' = [pc EXCEPT ![p] = "gc_create"]
                /\ loc' = [loc EXCEPT ![p] = l]
           ELSE IF LinkConflict(app_users[uid].google_sub, l.g.sub)
           THEN Reply(p, finishError(l,
                    "This email is already linked to a different Google account.",
                    409, NoRedirect))
           ELSE /\ pc' = [pc EXCEPT ![p] =
                       IF app_users[uid].google_sub = "" THEN "gc_link" ELSE "gc_update"]
                /\ loc' = [loc EXCEPT ![p] = l]
    /\ UNCHANGED <<redeemed, now, app_users, pending_registrations, login_otps,
                   client, otpAudit, userAudit, last>>

\* linkGoogleToUser(existing.id, sub); userAudit keeps the first subject
\* ever stored for the row
gc_link(p) ==
    /\ pc[p] = "gc_link"
    /\ app_users' = [app_users EXCEPT ![loc[p].g.existing] =
           [@ EXCEPT !.google_sub = loc[p].g.sub, !.email_verified = TRUE]]
    /\ userAudit' = [userAudit EXCEPT ![loc[p].g.existing].google_sub =
           IF @ = "" THEN loc[p].g.sub ELSE @]
    /\ pc' = [pc EXCEPT ![p] = "gc_update"]
    /\ loc' = [loc EXCEPT ![p].g.wrote = TRUE]
    /\ UNCHANGED <<redeemed, now, pending_registrations, login_otps,
                   client, otpAudit, last>>

\* updateUser(existing.id, {email_verified, picture, name}), then the session
\* for {...existing, google_sub: sub, email_verified: true, name}
gc_update(p) ==
    /\ pc[p] = "gc_update"
    /\ LET old  == loc[p].g.existingRow
           name == IF old.name # "" THEN old.name ELSE loc[p].g.name
           user == [old EXCEPT !.google_sub = loc[p].g.sub,
                               !.email_verified = TRUE, !.name = name]
       IN  /\ app_users' = [app_users EXCEPT ![loc[p].g.existing] =
                  [@ EXCEPT !.email_verified = TRUE, !.name = name]]
           /\ Reply(p, finishSuccess([loc[p] EXCEPT !.g.wrote = TRUE],
                                     loc[p].g.existing, user))
    /\ UNCHANGED <<redeemed, now, pending_registrations, login_otps,
                   client, otpAudit, userAudit, last>>

\* createUser({... password_hash: "$google$"}); a second row with the same
\* email violates the unique constraint, the inner catch answers 500
gc_create(p) ==
    /\ pc[p] = "gc_create"
    /\ IF findUserByEmail(loc[p].g.email) # 0
       THEN /\ Reply(p, finishError(loc[p], "User creation/linking failed", 500, NoRedirect))
            /\ UNCHANGED <<app_users, userAudit>>
       ELSE LET user == [email |-> loc[p].g.email, name |-> loc[p].g.name,
                         password_hash |-> Sentinel("$google$"), role |-> "user",
                         google_sub |-> loc[p].g.sub, email_verified |-> TRUE,
                         password_updated_at |-> now]
            IN  /\ app_users' = Append(app_users, user)
                /\ userAudit' = Append(userAudit,
                       [by |-> "googleCallback", otp |-> 0, otp_hash |-> bcryptHash(0),
                        google_sub |-> loc[p].g.sub, resets |-> {}])
                /\ Reply(p, finishSuccess(
                       [loc[p] EXCEPT !.g.wrote = TRUE, !.newUser = Len(app_users) + 1],
                       Len(app_users) + 1, user))
    /\ UNCHANGED <<redeemed, now, pending_registrations, login_otps,
                   client, otpAudit, last>>

\* ------------------------------------------------------------------ clock
\* The clock advances to one of `instants` that lies ahead.
Tick(instants) ==
    /\ \E t \in instants : now < t /\ now' = t
    /\ UNCHANGED <<redeemed, app_users, pending_registrations, login_otps, pc, loc,
                   client, otpAudit, userAudit, last>>

\* ------------------------------------------------------- specifications
Alice == [email |-> "alice@x.com", name |-> "alice", password_hash |-> bcryptHash("Pw1"),
          role |-> "user", google_sub |-> "", email_verified |-> FALSE,
          password_updated_at |-> 0]

\* no row in pending_registrations for an email
NoPending == [email |-> "", name |-> "", password_hash |-> bcryptHash(""),
              otp_hash |-> bcryptHash(0), expires_at |-> NULL, attempts |-> 0,
              consumed_at |-> NULL, present |-> FALSE]

NoAudit == [by |-> "", otp |-> 0, otp_hash |-> bcryptHash(0), google_sub |-> "",
            resets |-> {}]
NoLast  == [h |-> "", email |-> "", status |-> 0, capped |-> FALSE]

\* a user agent that holds no cookie and no token
NoCookies == [access_token |-> NoToken, reset_token |-> NoToken,
              g_state |-> NoState, g_nonce |-> "", g_mode |-> "", issued |-> 0]

\* a registered user, no OTP outstanding, no request in flight
InitLogin ==
    /\ now = 0
    /\ app_users = <<Alice>>
    /\ pending_registrations = [e \in Emails |-> NoPending]
    /\ login_otps = <<>>
    /\ otpAudit = <<>>
    /\ pc = [p \in Procs |-> "idle"]
    /\ loc = [p \in Procs |-> NoLoc]
    /\ client = NoCookies
    /\ userAudit = <<NoAudit>>
    /\ last = NoLast
    /\ redeemed = {}

\* one OTP lifetime and a second passes: every outstanding OTP expires
OtpLifetime == minutesFromNow(0, OTP_TTL_MIN) + 1000
OtpTick == Tick({OtpLifetime})

\* the login flow, one request at a time
Next ==
    \/ \E p \in {1}, email \in Emails, password \in Passwords, code \in Codes,
          mailOk \in BOOLEAN :
          login(p, email, password, code, mailOk)
    \/ \E p \in {1}, email \in Emails, code \in Codes, mailOk \in BOOLEAN :
          resendOtp(p, email, code, mailOk)
    \/ \E p \in {1}, email \in Emails, otp \in Codes : verifyOtp(p, email, otp)
    \/ \E p \in {1} : vac_select(p)
    \/ \E p \in {1} : vac_bump(p)
    \/ \E p \in {1} : vac_consume(p)
    \/ \E p \in {1} : Finish(p)
    \/ OtpTick

Spec == InitLogin /\ [][Next]_vars

\* the login flow with two verifications in flight at once, racing for the
\* one OTP that a login has issued
NextOtpConc ==
    \/ \E p \in {1}, email \in Emails, password \in Passwords, code \in Codes,
          mailOk \in BOOLEAN :
          login_otps = <<>> /\ login(p, email, password, code, mailOk)
    \/ \E p \in Procs, email \in Emails, otp \in Codes : verifyOtp(p, email, otp)
    \/ \E p \in Procs : vac_select(p)
    \/ \E p \in Procs : vac_bump(p)
    \/ \E p \in Procs : vac_consume(p)
    \/ \E p \in Procs : Finish(p)

SpecOtpConc == InitLogin /\ [][NextOtpConc]_vars

\* the store as created: no users, no pending registration, no OTP
InitEmpty ==
    /\ now = 0
    /\ app_users = <<>>
    /\ pending_registrations = [e \in Emails |-> NoPending]
    /\ login_otps = <<>>
    /\ otpAudit = <<>>
    /\ pc = [p \in Procs |-> "idle"]
    /\ loc = [p \in Procs |-> NoLoc]
    /\ client = NoCookies
    /\ userAudit = <<>>
    /\ last = NoLast
    /\ redeemed = {}

Names == {"Alice"}

\* registration, one request at a time
NextReg ==
    \/ \E p \in {1}, name \in Names, email \in Emails, password \in Passwords,
          otp \in Codes, mailOk \in BOOLEAN :
          register(p, name, email, password, otp, mailOk)
    \/ \E p \in {1}, email \in Emails, otp \in Codes, mailOk \in BOOLEAN :
          resendRegisterOtp(p, email, otp, mailOk)
    \/ \E p \in {1}, email \in Emails, otp \in Codes : verifyRegisterOtp(p, email, otp)
    \/ \E p \in {1} : vr_bump(p)
    \/ \E p \in {1} : vr_find(p)
    \/ \E p \in {1} : vr_insert(p)
    \/ \E p \in {1} : vr_consume(p)
    \/ \E p \in {1} : Deliver(p)
    \/ OtpTick

SpecReg == InitEmpty /\ [][NextReg]_vars

\* registration with two requests in flight at once
NextRegConc ==
    \/ \E p \in Procs, name \in Names, email \in Emails, password \in Passwords,
          otp \in Codes, mailOk \in BOOLEAN :
          register(p, name, email, password, otp, mailOk)
    \/ \E p \in {1}, email \in Emails, otp \in Codes, mailOk \in BOOLEAN :
          resendRegisterOtp(p, email, otp, mailOk)
    \/ \E p \in Procs, email \in Emails, otp \in Codes : verifyRegisterOtp(p, email, otp)
    \/ \E p \in Procs : vr_bump(p)
    \/ \E p \in Procs : vr_find(p)
    \/ \E p \in Procs : vr_conflict(p)
    \/ \E p \in Procs : vr_insert(p)
    \/ \E p \in Procs : vr_consume(p)
    \/ \E p \in Procs : Finish(p)

SpecRegConc == InitEmpty /\ [][NextRegConc]_vars

\* the code mailed to the user: that of the latest unconsumed OTP
MailedCode(email, purpose, otp) ==
    LET uid == findUserByEmail(email)
        rid == IF uid = 0 THEN 0 ELSE LatestUnconsumedOtp(uid, purpose)
    IN  rid # 0 /\ bcryptCompare(otp, login_otps[rid].otp_hash)

\* requests of a user agent that holds `c`: the session token as cookie or
\* as Bearer header, on a safe method
SessionRequests(c) ==
    {[method |-> "GET", csrfHeader |-> "", csrfCookie |-> "",
      cookieTok |-> ck, bearerTok |-> bt] :
        ck \in {NoToken, c.access_token}, bt \in {NoToken, c.access_token}}

\* the clock reaches half a second, the skew tolerance, and half a second
\* beyond it: a password change falls exactly at, just beyond and well within
\* the tolerance of a token, and within the second a token's iat is cut to
AuthTick == Tick({500, SKEW_MS, SKEW_MS + 500})

\* sessions and password reset of a user who types the mailed codes; which
\* value generateOtp draws plays no part here, it draws the same one each time
NextAuth ==
    \/ \E p \in {1}, email \in Emails, password \in Passwords :
          login(p, email, password, 1, TRUE)
    \/ \E p \in {1}, email \in Emails, otp \in Codes :
          MailedCode(email, "login", otp) /\ verifyOtp(p, email, otp)
    \/ \E p \in {1}, email \in Emails : requestReset(p, email, 1, TRUE)
    \/ \E p \in {1}, email \in Emails, otp \in Codes :
          MailedCode(email, "reset", otp) /\ verifyResetOtp(p, email, otp)
    \/ \E p \in {1} : vac_select(p)
    \/ \E p \in {1} : vac_bump(p)
    \/ \E p \in {1} : vac_consume(p)
    \/ \E p \in {1}, new_password \in Passwords :
          completeReset(p, client.reset_token, new_password)
    \/ \E p \in {1}, req \in SessionRequests(client) : auth(p, req)
    \/ \E p \in {1} : Respond(p)
    \/ AuthTick

SpecAuth == InitLogin /\ [][NextAuth]_vars

\* ---------------------------------------------------- OAuth specifications
OAuthCodes == {"c1", "c2"}
RedirectTargets == {"", "/settings", "https://app.example/settings",
                    "https://evil.example/x"}

\* values of the `state` parameter: absent, not decodable, or as encoded by
\* googleStart for one of the redirect targets
StateValues ==
    {NoState, [present |-> TRUE, json |-> FALSE, redirectTo |-> "", salt |-> 1]}
    \cup {[present |-> TRUE, json |-> TRUE, redirectTo |-> r, salt |-> 1] :
             r \in RedirectTargets}
OtherState == [present |-> TRUE, json |-> TRUE, redirectTo |-> "", salt |-> 2]

\* callbacks as any user agent can send them
CallbackRequests ==
    {[code |-> c, state |-> s, stateCookie |-> sc, nonceCookie |-> n, modeCookie |-> m] :
        c \in {""} \cup OAuthCodes, s \in StateValues,
        sc \in StateValues \cup {OtherState},
        n \in {"", "n1"}, m \in {"", "popup"}}

\* identity tokens the provider may return for an authorization code
Payloads(code) ==
    {[iss |-> i, aud |-> a, nonce |-> n, sub |-> IdentityOf(code).sub,
      email |-> e, name |-> IdentityOf(code).name, email_verified |-> ev] :
        i \in {"https://accounts.google.com", "https://evil.example"},
        a \in {GOOGLE_CLIENT_ID, "other-client"},
        n \in {"", "n1", "n2"},
        e \in {"", IdentityOf(code).email},
        ev \in BOOLEAN}

GoodPayload(code) ==
    [iss |-> "https://accounts.google.com", aud |-> GOOGLE_CLIENT_ID, nonce |-> "n1",
     sub |-> IdentityOf(code).sub, email |-> IdentityOf(code).email,
     name |-> IdentityOf(code).name, email_verified |-> TRUE]

\* what the token endpoint can answer: the fetch fails, the exchange is
\* refused, no id_token, or an id_token with a good or bad signature
ProviderResponses(code) ==
    {[threw |-> TRUE, ok |-> FALSE, idToken |-> FALSE, sigOk |-> FALSE,
      payload |-> GoodPayload(code)],
     [threw |-> FALSE, ok |-> FALSE, idToken |-> FALSE, sigOk |-> FALSE,
      payload |-> GoodPayload(code)],
     [threw |-> FALSE, ok |-> TRUE, idToken |-> FALSE, sigOk |-> FALSE,
      payload |-> GoodPayload(code)]}
    \cup {[threw |-> FALSE, ok |-> TRUE, idToken |-> TRUE, sigOk |-> so, payload |-> pl] :
             so \in BOOLEAN, pl \in Payloads(code)}

\* the store as created, or with one password user
InitOAuth == InitEmpty \/ InitLogin

\* OAuth callbacks, one request at a time
NextOAuth ==
    \/ \E p \in {1}, req \in CallbackRequests : googleCallback(p, req)
    \/ \E p \in {1} : \E resp \in ProviderResponses(loc[p].g.code) : gc_exchange(p, resp)
    \/ \E p \in {1} : gc_findSub(p)
    \/ \E p \in {1} : gc_findEmail(p)
    \/ \E p \in {1} : gc_link(p)
    \/ \E p \in {1} : gc_update(p)
    \/ \E p \in {1} : gc_create(p)
    \/ \E p \in {1} : Finish(p)

SpecOAuth == InitOAuth /\ [][NextOAuth]_vars

\* callbacks of a user agent that returns from the provider with the cookies
\* googleStart gave it
HonestCallbacks ==
    {[code |-> c, state |-> OtherState, stateCookie |-> OtherState,
      nonceCookie |-> "n1", modeCookie |-> ""] : c \in OAuthCodes}

\* the provider refuses the exchange or returns the account's identity token
HonestResponses(code) ==
    {[threw |-> FALSE, ok |-> o, idToken |-> o, sigOk |-> o,
      payload |-> GoodPayload(code)] : o \in BOOLEAN}

\* OAuth callbacks with two requests in flight at once
NextOAuthConc ==
    \/ \E p \in Procs, req \in HonestCallbacks : googleCallback(p, req)
    \/ \E p \in Procs : \E resp \in HonestResponses(loc[p].g.code) : gc_exchange(p, resp)
    \/ \E p \in Procs : gc_findSub(p)
    \/ \E p \in Procs : gc_findEmail(p)
    \/ \E p \in Procs : gc_link(p)
    \/ \E p \in Procs : gc_update(p)
    \/ \E p \in Procs : gc_create(p)
    \/ \E p \in Procs : Finish(p)

SpecOAuthConc == InitOAuth /\ [][NextOAuthConc]_vars

\* ------------------------------------------------------ CSRF specification
CsrfTokens == {"", "t1", "t2"}

\* requests of a client that holds the cookies in c, with any method and any
\* X-CSRF-Token header and csrf_token cookie
CsrfRequests(c) ==
    {[method |-> m, csrfHeader |-> h, csrfCookie |-> k, cookieTok |-> ck,
      bearerTok |-> bt] :
        m \in {"GET", "OPTIONS", "POST", "DELETE"}, h \in CsrfTokens, k \in CsrfTokens,
        ck \in {NoToken, c.access_token}, bt \in {NoToken, c.access_token}}

\* login, then requests to the protected routes and to /logout
NextCsrf ==
    \/ \E p \in {1}, email \in Emails, password \in Passwords :
          login(p, email, password, 1, TRUE)
    \/ \E p \in {1}, email \in Emails, otp \in Codes :
          MailedCode(email, "login", otp) /\ verifyOtp(p, email, otp)
    \/ \E p \in {1} : vac_select(p)
    \/ \E p \in {1} : vac_bump(p)
    \/ \E p \in {1} : vac_consume(p)
    \/ \E p \in {1}, req \in CsrfRequests(client) : auth(p, req)
    \/ \E p \in {1}, req \in CsrfRequests(client) : logout(p, req)
    \/ \E p \in {1} : Respond(p)

SpecCsrf == InitLogin /\ [][NextCsrf]_vars

\* ---------------------------------------------------- token specification
\* a token that was not signed with JWT_SECRET
ForgedToken == [NoToken EXCEPT !.sub = 1, !.email = "alice@x.com", !.name = "alice",
                               !.role = "admin", !.exp = 2 * JWT_EXPIRES_S,
                               !.sig = "forged"]

\* the tokens a user agent holding c can present
TokenPool(c) == {NoToken, c.access_token, c.reset_token, ForgedToken}

\* requests that present any of them as cookie and as Bearer header
TokenRequests(c) ==
    {[method |-> "GET", csrfHeader |-> "", csrfCookie |-> "",
      cookieTok |-> ck, bearerTok |-> bt] : ck \in TokenPool(c), bt \in TokenPool(c)}

\* the clock reaches the end of a reset token's 15 minutes and the end of a
\* session token's hour
TokenTick == Tick({RESET_EXPIRES_S * 1000, JWT_EXPIRES_S * 1000})

\* login and password reset of a user who types the mailed codes, and a user
\* agent that presents whatever token it holds wherever a token is taken
NextTokens ==
    \/ \E p \in {1}, email \in Emails, password \in Passwords :
          login(p, email, password, 1, TRUE)
    \/ \E p \in {1}, email \in Emails, otp \in Codes :
          MailedCode(email, "login", otp) /\ verifyOtp(p, email, otp)
    \/ \E p \in {1}, email \in Emails : requestReset(p, email, 1, TRUE)
    \/ \E p \in {1}, email \in Emails, otp \in Codes :
          MailedCode(email, "reset", otp) /\ verifyResetOtp(p, email, otp)
    \/ \E p \in {1} : vac_select(p)
    \/ \E p \in {1} : vac_bump(p)
    \/ \E p \in {1} : vac_consume(p)
    \/ \E p \in {1}, tok \in TokenPool(client), new_password \in Passwords :
          completeReset(p, tok, new_password)
    \/ \E p \in {1}, req \in TokenRequests(client) : auth(p, req)
    \/ \E p \in {1} : Respond(p)
    \/ TokenTick

SpecTokens == InitLogin /\ [][NextTokens]_vars

\* -------------------------------------------- password reset specification
\* the reset flow, one request at a time, for an email with and without a
\* User, with the mail dispatch succeeding or failing
NextReset ==
    \/ \E p \in {1}, email \in Emails, code \in Codes, mailOk \in BOOLEAN :
          requestReset(p, email, code, mailOk)
    \/ \E p \in {1}, email \in Emails, otp \in Codes : verifyResetOtp(p, email, otp)
    \/ \E p \in {1} : vac_select(p)
    \/ \E p \in {1} : vac_bump(p)
    \/ \E p \in {1} : vac_consume(p)
    \/ \E p \in {1} : Finish(p)
    \/ OtpTick

SpecReset == InitOAuth /\ [][NextReset]_vars

\* ------------------------------------------------- OTP expiry specification
\* the clock reaches one second before, exactly, and one second after the
\* expiry of an OTP issued at time 0
TtlTick == Tick({minutesFromNow(0, OTP_TTL_MIN) - 1000,
                 minutesFromNow(0, OTP_TTL_MIN),
                 minutesFromNow(0, OTP_TTL_MIN) + 1000})

\* one login and the verifications of its OTP around the expiry instant, the
\* mail dispatch succeeding or failing, by a caller that remembers the last
\* response
NextTtl ==
    \/ \E p \in {1}, email \in Emails, password \in Passwords, code \in Codes,
          mailOk \in BOOLEAN :
          login_otps = <<>> /\ login(p, email, password, code, mailOk)
    \/ \E p \in {1}, email \in Emails, otp \in Codes : verifyOtp(p, email, otp)
    \/ \E p \in {1} : vac_select(p)
    \/ \E p \in {1} : vac_bump(p)
    \/ \E p \in {1} : vac_consume(p)
    \/ \E p \in {1} : Deliver(p)
    \/ TtlTick

SpecTtl == InitLogin /\ [][NextTtl]_vars

\* ------------------------------------------- OTP purposes specification
\* one login and one password reset of one user side by side: codes of both
\* purposes are outstanding and any code is tried at both verify endpoints
NextPurpose ==
    \/ \E p \in {1}, email \in Emails, password \in Passwords, code \in Codes :
          /\ LatestAnyOtp(findUserByEmail(email), "login") = 0
          /\ login(p, email, password, code, TRUE)
    \/ \E p \in {1}, email \in Emails, code \in Codes :
          /\ LatestAnyOtp(findUserByEmail(email), "reset") = 0
          /\ requestReset(p, email, code, TRUE)
    \/ \E p \in {1}, email \in Emails, otp \in Codes : verifyOtp(p, email, otp)
    \/ \E p \in {1}, email \in Emails, otp \in Codes : verifyResetOtp(p, email, otp)
    \/ \E p \in {1} : vac_select(p)
    \/ \E p \in {1} : vac_bump(p)
    \/ \E p \in {1} : vac_consume(p)
    \/ \E p \in {1} : Finish(p)

SpecPurpose == InitLogin /\ [][NextPurpose]_vars

\* -------------------------------------------------- account specification
\* a logout request of a user agent that holds c
LogoutRequests(c) ==
    {[method |-> "POST", csrfHeader |-> "", csrfCookie |-> "",
      cookieTok |-> c.access_token, bearerTok |-> NoToken]}

\* every way an account is created, signed in to and changed, one request at
\* a time: registration, login, the OAuth callback, password reset and logout
\* of a user who types the mailed code and presents whatever token it holds
NextAccount ==
    \/ \E p \in {1}, name \in Names, email \in Emails, password \in Passwords :
          register(p, name, email, password, 1, TRUE)
    \/ \E p \in {1}, email \in Emails : verifyRegisterOtp(p, email, 1)
    \/ \E p \in {1} : vr_bump(p)
    \/ \E p \in {1} : vr_find(p)
    \/ \E p \in {1} : vr_conflict(p)
    \/ \E p \in {1} : vr_insert(p)
    \/ \E p \in {1} : vr_consume(p)
    \/ \E p \in {1}, email \in Emails, password \in Passwords :
          login(p, email, password, 1, TRUE)
    \/ \E p \in {1}, email \in Emails, otp \in Codes :
          MailedCode(email, "login", otp) /\ verifyOtp(p, email, otp)
    \/ \E p \in {1}, email \in Emails : requestReset(p, email, 1, TRUE)
    \/ \E p \in {1}, email \in Emails, otp \in Codes :
          MailedCode(email, "reset", otp) /\ verifyResetOtp(p, email, otp)
    \/ \E p \in {1} : vac_select(p)
    \/ \E p \in {1} : vac_bump(p)
    \/ \E p \in {1} : vac_consume(p)
    \/ \E p \in {1}, tok \in TokenPool(client), new_password \in Passwords :
          completeReset(p, tok, new_password)
    \/ \E p \in {1}, req \in HonestCallbacks : googleCallback(p, req)
    \/ \E p \in {1} : \E resp \in HonestResponses(loc[p].g.code) : gc_exchange(p, resp)
    \/ \E p \in {1} : gc_findSub(p)
    \/ \E p \in {1} : gc_findEmail(p)
    \/ \E p \in {1} : gc_link(p)
    \/ \E p \in {1} : gc_update(p)
    \/ \E p \in {1} : gc_create(p)
    \/ \E p \in {1}, req \in LogoutRequests(client) : logout(p, req)
    \/ \E p \in {1} : Respond(p)

SpecAccount == InitOAuth /\ [][NextAccount]_vars

\* ------------------------------------------------ OAuth flow specification
\* the states googleStart can encode: no redirect target, two random salts
FlowStates ==
    {[present |-> TRUE, json |-> TRUE, redirectTo |-> "", salt |-> r] : r \in {1, 2}}

\* callbacks of a user agent that holds c: the provider's redirect, or a
\* replay of it, with any authorization code and state parameter, and the
\* transient cookies the agent holds at that moment
AgentCallbacks(c) ==
    {[code |-> code, state |-> s, stateCookie |-> c.g_state,
      nonceCookie |-> c.g_nonce, modeCookie |-> c.g_mode] :
        code \in OAuthCodes, s \in FlowStates}

\* one user agent that starts OAuth flows and follows or replays the
\* provider's redirect to the callback, one request at a time
NextFlow ==
    \/ \E p \in {1}, isPopup \in BOOLEAN, s \in FlowStates :
          googleStartGet(p, isPopup, s.redirectTo, s.salt, "n1")
    \/ \E p \in {1}, req \in AgentCallbacks(client) : googleCallback(p, req)
    \/ \E p \in {1} : \E resp \in HonestResponses(loc[p].g.code) : gc_exchange(p, resp)
    \/ \E p \in {1} : gc_findSub(p)
    \/ \E p \in {1} : gc_findEmail(p)
    \/ \E p \in {1} : gc_link(p)
    \/ \E p \in {1} : gc_update(p)
    \/ \E p \in {1} : gc_create(p)
    \/ \E p \in {1} : Respond(p)

SpecFlow == InitOAuth /\ [][NextFlow]_vars

\* ----------------------------------------------------- role specification
Roles == {"user", "admin"}

\* the role column of an app_users row is changed in the store; no handler
\* writes it after the insert
roleChanged(uid, role) ==
    /\ \A p \in Procs : pc[p] = "idle"
    /\ app_users[uid].role # role
    /\ app_users' = [app_users EXCEPT ![uid].role = role]
    /\ UNCHANGED <<redeemed, now, pending_registrations, login_otps, pc, loc,
                   client, otpAudit, userAudit, last>>

\* a session token this server signed for a user whose row has since been
\* deleted from app_users
OrphanToken ==
    [sub |-> 2, role |-> "user", email |-> "bob@x.com", name |-> "bob", purpose |-> "",
     iat |-> 0, exp |-> JWT_EXPIRES_S, sig |-> "JWT_SECRET"]

\* requests that present the session the agent holds, or the orphan token
RoleRequests(c) ==
    {[method |-> "GET", csrfHeader |-> "", csrfCookie |-> "",
      cookieTok |-> ck, bearerTok |-> bt] :
        ck \in {NoToken, c.access_token, OrphanToken},
        bt \in {NoToken, c.access_token}}

\* sessions of a user whose stored role changes between requests
NextRole ==
    \/ \E p \in {1}, email \in Emails, password \in Passwords :
          login(p, email, password, 1, TRUE)
    \/ \E p \in {1}, email \in Emails, otp \in Codes :
          MailedCode(email, "login", otp) /\ verifyOtp(p, email, otp)
    \/ \E p \in {1} : vac_select(p)
    \/ \E p \in {1} : vac_bump(p)
    \/ \E p \in {1} : vac_consume(p)
    \/ \E uid \in 1..Len(app_users), role \in Roles : roleChanged(uid, role)
    \/ \E p \in {1}, req \in RoleRequests(client) : auth(p, req)
    \/ \E p \in {1} : Respond(p)

SpecRole == InitLogin /\ [][NextRole]_vars

\* --------------------------------------------------- logout specification
\* the session tokens verifyOtp has signed so far: one per consumed login
\* OTP, signed at the instant the OTP was consumed
IssuedSessions ==
    {signJwt(app_users[login_otps[r].user_id], login_otps[r].user_id,
             login_otps[r].consumed_at) :
        r \in {i \in 1..Len(login_otps) :
                  login_otps[i].purpose = "login" /\ login_otps[i].consumed_at # NULL}}

\* requests with the cookie the agent holds, or with a session token it was
\* issued earlier as Bearer header
KeptTokenRequests(c) ==
    {[method |-> "GET", csrfHeader |-> "", csrfCookie |-> "",
      cookieTok |-> ck, bearerTok |-> bt] :
        ck \in {NoToken, c.access_token}, bt \in {NoToken} \cup IssuedSessions}

\* login, logout and password reset of a user who keeps a copy of the session
\* token and presents it after logging out, while the clock passes the
\* token's expiry
NextLogout ==
    \/ \E p \in {1}, email \in Emails, password \in Passwords :
          login(p, email, password, 1, TRUE)
    \/ \E p \in {1}, email \in Emails, otp \in Codes :
          MailedCode(email, "login", otp) /\ verifyOtp(p, email, otp)
    \/ \E p \in {1}, email \in Emails : requestReset(p, email, 1, TRUE)
    \/ \E p \in {1}, email \in Emails, otp \in Codes :
          MailedCode(email, "reset", otp) /\ verifyResetOtp(p, email, otp)
    \/ \E p \in {1} : vac_select(p)
    \/ \E p \in {1} : vac_bump(p)
    \/ \E p \in {1} : vac_consume(p)
    \/ \E p \in {1}, new_password \in Passwords :
          completeReset(p, client.reset_token, new_password)
    \/ \E p \in {1}, req \in LogoutRequests(client) : logout(p, req)
    \/ \E p \in {1}, req \in KeptTokenRequests(client) : auth(p, req)
    \/ \E p \in {1} : Respond(p)
    \/ TokenTick

SpecLogout == InitLogin /\ [][NextLogout]_vars

\* ------------------------------------------------------------------ claims
\* a verifyAndConsumeOtp call of p has returned and its caller has answered
VerifyDone(p) ==
    pc[p] = "done" /\ loc[p].h \in {"verifyOtp", "verifyResetOtp"} /\ loc[p].uid # 0

\* The most recently issued OTP of the caller's (user, purpose) has been
\* consumed, it carries the code this call presented, and it was not this
\* call that consumed it: p is a second call with the same correct code.
SecondCall(p) ==
    LET r == LatestAnyOtp(loc[p].uid, PurposeOf(loc[p].h))
    IN  /\ VerifyDone(p)
        /\ r # 0
        /\ login_otps[r].consumed_at # NULL
        /\ bcryptCompare(loc[p].otp, login_otps[r].otp_hash)
        /\ ~(loc[p].consumed /\ loc[p].rid = r)

C2_ExactlyOneOk ==
    \A p, q \in Procs :
        ( /\ p # q
          /\ VerifyDone(p) /\ VerifyDone(q)
          /\ loc[p].rid # 0 /\ loc[p].rid = loc[q].rid
          /\ loc[p].match /\ loc[q].match )
        => {loc[p].v, loc[q].v} = {"ok", "invalid"}

\* p answers a request that carried a correctly signed, unexpired session
\* token whose subject exists
ValidSessionPresented(p) ==
    /\ pc[p] = "done" /\ loc[p].h = "auth"
    /\ loc[p].tok # NoToken /\ loc[p].tok.purpose = ""
    /\ jwtVerify(loc[p].tok, now)
    /\ loc[p].tok.sub \in 1..Len(app_users)

PwdUpdatedAtMs(p) == app_users[loc[p].tok.sub].password_updated_at
TokenIssuedAtMs(p) == loc[p].tok.iat * 1000

\* C3: a session token whose issued-at time precedes the user's most recent
\* password change is always rejected by the auth middleware.
C3_StaleTokenRejected ==
    \A p \in Procs :
        (ValidSessionPresented(p) /\ TokenIssuedAtMs(p) < PwdUpdatedAtMs(p))
        => (loc[p].status = 401 /\ loc[p].v # "next")

\* C4: a valid session token issued at T is accepted while the password-changed
\* timestamp P is not later than T, and rejected with 401 when P - T > 120 s.
C4_SkewTolerance ==
    \A p \in Procs :
        ValidSessionPresented(p) =>
          /\ (PwdUpdatedAtMs(p) <= TokenIssuedAtMs(p) =>
                /\ loc[p].v = "next"
                /\ loc[p].reqUser.sub = loc[p].tok.sub)
          /\ (PwdUpdatedAtMs(p) - TokenIssuedAtMs(p) > SKEW_MS =>
                /\ loc[p].status = 401
                /\ loc[p].v # "next"
                /\ loc[p].reqUser = NoReqUser)

C4_Witness ==
    \E p \in Procs :
        /\ ValidSessionPresented(p)
        /\ PwdUpdatedAtMs(p) - TokenIssuedAtMs(p) > SKEW_MS
        /\ loc[p].status = 401

\* C5 as stated: once 5 wrong codes have been tried against a record, every
\* later call against it returns too_many_attempts, compares nothing and
\* consumes nothing.
C5_CappedTooMany ==
    \A p \in Procs :
        (VerifyDone(p) /\ loc[p].rid # 0 /\ loc[p].wrongBefore >= MAX_ATTEMPTS)
        => /\ loc[p].v = "too_many_attempts"
           /\ ~loc[p].compared
           /\ ~loc[p].consumed

\* C5 amended: ... every later call against it returns too_many_attempts
\* while the record is unexpired and expired once its expiry has passed; in
\* both cases nothing is compared, the record stays unconsumed and no more
\* than 5 candidates are ever compared against it.
C5_CappedNeverOk ==
    /\ \A r \in 1..Len(login_otps) : otpAudit[r].compares <= MAX_ATTEMPTS
    /\ \A p \in Procs :
        (VerifyDone(p) /\ loc[p].rid # 0 /\ loc[p].wrongBefore >= MAX_ATTEMPTS)
        => /\ loc[p].v \in {"too_many_attempts", "expired"}
           /\ (loc[p].v = "expired" => OtpExpired(login_otps[loc[p].rid], now))
           /\ ~loc[p].compared
           /\ ~loc[p].consumed
           /\ login_otps[loc[p].rid].consumed_at = NULL
           /\ loc[p].cookie = NoToken

C5_Witness ==
    \E p \in Procs :
        /\ VerifyDone(p) /\ loc[p].rid # 0 /\ loc[p].wrongBefore >= MAX_ATTEMPTS
        /\ bcryptCompare(loc[p].otp, login_otps[loc[p].rid].otp_hash)
        /\ loc[p].v = "too_many_attempts"

\* C6: a login OTP record is created only by a request that has itself
\* checked the user's password.
C6_OtpOnlyAfterPassword ==
    \A p \in Procs : (pc[p] = "done" /\ loc[p].newOtp # 0) => loc[p].pwOk

\* C7: a session cookie is set only by a verify-otp request whose
\* verifyAndConsumeOtp(user, 'login') returned ok; login step 1 and failed
\* verifications set none.
C7_SessionOnlyAfterOtp ==
    \A p \in Procs :
        pc[p] = "done" =>
          /\ (loc[p].cookie # NoToken =>
                /\ loc[p].h = "verifyOtp"
                /\ loc[p].v = "ok"
                /\ loc[p].consumed
                /\ login_otps[loc[p].rid].user_id = loc[p].uid
                /\ login_otps[loc[p].rid].purpose = "login"
                /\ login_otps[loc[p].rid].consumed_at # NULL
                /\ loc[p].cookie.sub = loc[p].uid)
          /\ (loc[p].h = "verifyOtp" /\ loc[p].v # "ok" => loc[p].cookie = NoToken)
          /\ (loc[p].h \in {"login", "resendOtp"} => loc[p].cookie = NoToken)

C7_Witness ==
    \E p \in Procs :
        /\ pc[p] = "done" /\ loc[p].h = "verifyOtp"
        /\ loc[p].v = "ok" /\ loc[p].cookie # NoToken

\* C8: registration creates no User before OTP verification: every User row
\* was inserted by verifyRegisterOtp, for a request whose submitted code
\* matched the OTP stored for that email; register and the resend insert none.
C8_UserOnlyAfterOtp ==
    /\ Len(userAudit) = Len(app_users)
    /\ \A i \in 1..Len(app_users) :
          /\ userAudit[i].by = "verifyRegisterOtp"
          /\ bcryptCompare(userAudit[i].otp, userAudit[i].otp_hash)
    /\ \A p \in Procs :
          (pc[p] = "done" /\ loc[p].h \in {"register", "resendRegisterOtp"})
          => (loc[p].newUser = 0 /\ loc[p].cookie = NoToken)
    /\ \A p \in Procs :
          (loc[p].h = "verifyRegisterOtp" /\ loc[p].newUser # 0) => loc[p].match

C8_Witness ==
    \E p \in Procs :
        /\ pc[p] = "done" /\ loc[p].h = "verifyRegisterOtp" /\ loc[p].status = 201
        /\ app_users[loc[p].newUser].email = loc[p].email

\* p answers a start-registration that immediately follows a successful
\* start-registration for the same email
RegisterAgain(p) ==
    /\ pc[p] = "done" /\ loc[p].h = "register"
    /\ last.h = "register" /\ last.status = 200 /\ last.email = loc[p].email

\* C9 as stated: a start-registration that immediately follows a successful
\* one for the same email is rejected with 409.
C9_SecondRegister409 ==
    \A p \in Procs : RegisterAgain(p) => loc[p].status = 409

\* C9 amended: register answers 409 exactly when a User with that email
\* exists; a start-registration that immediately follows a successful one for
\* the same email is accepted (200, or 500 when the mail dispatch fails) and
\* leaves a fresh pending registration with attempts 0.
C9_Register409IffUser ==
    \A p \in Procs :
        (pc[p] = "done" /\ loc[p].h = "register") =>
          /\ (loc[p].status = 409) = (findUserByEmail(loc[p].email) # 0)
          /\ loc[p].status \in {200, 409, 500}
          /\ (loc[p].status # 409 =>
                /\ PendingUnconsumed(loc[p].email)
                /\ PendingRow(loc[p].email).attempts = 0)
          /\ (RegisterAgain(p) => loc[p].status # 409)

C9_Witness ==
    \E p \in Procs : RegisterAgain(p) /\ loc[p].status = 200

\* C10: of two concurrent verifyRegisterOtp requests with the correct OTP for
\* the same pending registration exactly one answers 201, the other answers
\* 401 or 409, and one User exists for the email.
C10_PromotedOnce ==
    \A p, q \in Procs :
        ( /\ p # q
          /\ pc[p] = "done" /\ loc[p].h = "verifyRegisterOtp" /\ loc[p].match
          /\ pc[q] = "done" /\ loc[q].h = "verifyRegisterOtp" /\ loc[q].match
          /\ loc[p].email = loc[q].email )
        => /\ \/ loc[p].status = 201 /\ loc[q].status \in {401, 409}
              \/ loc[q].status = 201 /\ loc[p].status \in {401, 409}
           /\ Cardinality({i \in 1..Len(app_users) :
                              app_users[i].email = loc[p].email}) = 1

\* p answers a verifyRegisterOtp that found an unconsumed pending registration
\* with 5 or more attempts on it
RegisterCapped(p) ==
    /\ pc[p] = "done" /\ loc[p].h = "verifyRegisterOtp"
    /\ loc[p].reason # "No pending registration or already verified"
    /\ loc[p].att >= MAX_ATTEMPTS

\* p answers a verifyRegisterOtp that immediately follows a successful resend
\* for the same email and carries the code the resend stored
VerifyAfterResend(p) ==
    /\ pc[p] = "done" /\ loc[p].h = "verifyRegisterOtp"
    /\ last.h = "resendRegisterOtp" /\ last.status = 200 /\ last.email = loc[p].email
    /\ bcryptCompare(loc[p].otp, PendingRow(loc[p].email).otp_hash)

\* C11 as stated: once a pending registration has 5 wrong attempts every
\* further verifyRegisterOtp answers 429 and creates no User; after a resend
\* the new correct code (submitted in time) answers 201 with a User and a
\* session cookie.
C11_CappedThenResend ==
    \A p \in Procs :
        /\ (RegisterCapped(p) => (loc[p].status = 429 /\ loc[p].newUser = 0))
        /\ ((VerifyAfterResend(p) /\ ~OtpExpired(PendingRow(loc[p].email), now)) =>
               (loc[p].status = 201 /\ loc[p].newUser # 0 /\ loc[p].cookie # NoToken))

\* C11 amended: a capped pending registration answers 429 while its OTP has
\* not expired and 401 "OTP expired" afterwards, in both cases without
\* comparing the code, creating a User or setting a cookie; after a resend the
\* new correct code, submitted before it expires, answers 201, creates the
\* User and sets the session cookie.
C11_CappedUntilResend ==
    \A p \in Procs :
        /\ (RegisterCapped(p) =>
               /\ loc[p].status \in {429, 401}
               /\ (loc[p].status = 401 =>
                      /\ loc[p].reason = "OTP expired"
                      /\ OtpExpired(PendingRow(loc[p].email), now))
               /\ ~loc[p].compared
               /\ loc[p].newUser = 0
               /\ loc[p].cookie = NoToken
               /\ findUserByEmail(loc[p].email) = 0)
        /\ ((VerifyAfterResend(p) /\ ~OtpExpired(PendingRow(loc[p].email), now)) =>
               /\ loc[p].status = 201
               /\ loc[p].att = 0
               /\ loc[p].newUser # 0
               /\ app_users[loc[p].newUser].email = loc[p].email
               /\ loc[p].cookie # NoToken
               /\ loc[p].cookie.sub = loc[p].newUser)

C11_Witness ==
    \E p \in Procs :
        /\ VerifyAfterResend(p) /\ last.capped
        /\ loc[p].status = 201 /\ loc[p].cookie # NoToken

\* p has answered an OAuth callback
CallbackDone(p) == pc[p] = "done" /\ loc[p].h = "googleCallback"

\* p, in an OAuth callback, has written to the store or set a session cookie
CallbackActed(p) ==
    loc[p].h = "googleCallback" /\ (loc[p].g.wrote \/ loc[p].cookie # NoToken)

\* C12: an OAuth callback whose state is absent or differs from the g_state
\* cookie is always rejected with the invalid-state failure, and in that
\* failure no exchange request, no identity verification, no store write and
\* no session issuance has occurred.
C12_StateBeforeExchange ==
    \A p \in Procs :
        /\ ((loc[p].h = "googleCallback" /\ ~loc[p].g.stateOk) =>
               /\ pc[p] = "done"
               /\ loc[p].g.error = "Invalid OAuth state")
        /\ ((CallbackDone(p) /\ loc[p].g.error = "Invalid OAuth state") =>
               /\ ~loc[p].g.exchanged
               /\ ~loc[p].g.verified
               /\ ~loc[p].g.wrote
               /\ loc[p].cookie = NoToken)
        /\ ((loc[p].h = "googleCallback" /\ loc[p].g.exchanged) => loc[p].g.stateOk)

C12_Witness ==
    \E p \in Procs :
        /\ CallbackDone(p) /\ loc[p].g.code # "" /\ ~loc[p].g.stateOk
        /\ loc[p].g.error = "Invalid OAuth state" /\ ~loc[p].g.exchanged

\* p's callback found no User with the presented subject and a User with the
\* presented email that is linked to a different subject
SawForeignLink(p) ==
    /\ CallbackDone(p) /\ loc[p].g.existing # 0
    /\ loc[p].g.existingRow.google_sub \notin {"", loc[p].g.sub}

\* C13: when no User has the presented subject but a User with the presented
\* email is linked to a different subject, the callback ends in the 409
\* conflict failure, leaves that User unchanged, creates no User and sets no
\* session cookie.
C13_ConflictLeavesUser ==
    \A p \in Procs :
        SawForeignLink(p) =>
          /\ loc[p].g.errStatus = 409
          /\ loc[p].g.error = "This email is already linked to a different Google account."
          /\ ~loc[p].g.wrote
          /\ loc[p].newUser = 0
          /\ loc[p].cookie = NoToken
          /\ app_users[loc[p].g.existing] = loc[p].g.existingRow
          /\ findUserByGoogleSub(loc[p].g.sub) = 0

C13_Witness ==
    \E p \in Procs : SawForeignLink(p) /\ loc[p].g.errStatus = 409

\* C14: a User's stored provider subject, once set, is never replaced by a
\* different subject (userAudit keeps the first subject stored for each row).
C14_SubNeverReplaced ==
    \A i \in 1..Len(app_users) :
        userAudit[i].google_sub # "" => app_users[i].google_sub = userAudit[i].google_sub

C16_IdentityBeforeLinking ==
    \A p \in Procs :
        /\ ((loc[p].h = "googleCallback"
             /\ (CallbackActed(p) \/ pc[p] \in {"gc_findSub", "gc_findEmail", "gc_link",
                                                "gc_update", "gc_create"}))
            => (loc[p].g.verified /\ loc[p].g.idValid))
        /\ ((CallbackDone(p) /\ loc[p].g.exchanged /\ ~loc[p].g.idValid) =>
               /\ loc[p].g.error # ""
               /\ ~loc[p].g.wrote
               /\ loc[p].cookie = NoToken)

C16_Witness ==
    \E p \in Procs :
        /\ CallbackDone(p) /\ loc[p].g.verified /\ ~loc[p].g.idValid
        /\ loc[p].g.error = "Nonce mismatch" /\ loc[p].cookie = NoToken

\* C17: the redirect target of a successful callback always has the
\* application's own configured origin.
C17_RedirectOwnOrigin ==
    \A p \in Procs :
        (CallbackDone(p) /\ loc[p].cookie # NoToken) =>
            /\ loc[p].g.redirect.origin = UrlOrigin(APP_PUBLIC_URL)
            /\ loc[p].g.redirect.pathname = "/vaultx/dashboard"

\* C18: every terminating path of the OAuth callback clears the three
\* transient cookies g_state, g_nonce and g_mode before responding.
C18_TempCookiesCleared ==
    \A p \in Procs : CallbackDone(p) => loc[p].g.cleared = TempCookies

C18_Witness ==
    \E p \in Procs :
        /\ CallbackDone(p) /\ loc[p].g.error = "Token exchange failed"
        /\ loc[p].g.cleared = TempCookies

\* p has answered a request with an unsafe method
UnsafeDone(p) == pc[p] = "done" /\ loc[p].method \in UNSAFE_METHODS

\* the request p answered carried an X-CSRF-Token header equal to its
\* csrf_token cookie
CsrfMatched(p) == loc[p].csrfHeader # "" /\ loc[p].csrfHeader = loc[p].csrfCookie

\* C19: an unsafe-method request handled by the auth middleware whose
\* X-CSRF-Token header is absent, whose csrf_token cookie is absent or whose
\* two values differ is answered 403 before token extraction, verification,
\* user lookup or the handler; the handler runs only when both are present
\* and equal.
C19_CsrfBeforeAuth ==
    \A p \in Procs :
        (UnsafeDone(p) /\ loc[p].h = "auth") =>
            /\ (~CsrfMatched(p) =>
                   /\ loc[p].status = 403
                   /\ loc[p].reason = "CSRF validation failed"
                   /\ loc[p].tok = NoToken
                   /\ loc[p].uid = 0
                   /\ loc[p].reqUser = NoReqUser
                   /\ loc[p].v # "next")
            /\ (loc[p].v = "next" => CsrfMatched(p))
            /\ (CsrfMatched(p) => loc[p].status # 403)

C19_Witness ==
    \E p \in Procs :
        /\ UnsafeDone(p) /\ loc[p].h = "auth"
        /\ loc[p].csrfHeader = "t1" /\ loc[p].csrfCookie = "t2"
        /\ client.access_token # NoToken
        /\ loc[p].status = 403

\* C20: every unsafe-method request that reaches the handler of a route used
\* with a session (the protected routes behind auth, and logout) has passed
\* the CSRF double-submit check and the session token validator.
C20_HandlerBehindBothChecks ==
    \A p \in Procs :
        (/\ UnsafeDone(p)
         /\ \/ loc[p].h = "auth" /\ loc[p].v = "next"
            \/ loc[p].h = "logout" /\ client.access_token # NoToken)
        => (CsrfMatched(p) /\ loc[p].reqUser # NoReqUser)

\* p has answered a request that the auth middleware took past the CSRF check
AuthDone(p) ==
    /\ pc[p] = "done" /\ loc[p].h = "auth"
    /\ loc[p].method # "OPTIONS" /\ loc[p].status # 403

\* the middleware would accept token t now: signature, expiry, the user
\* exists and the password was not changed more than SKEW_MS after t's iat
Acceptable(t) ==
    /\ jwtVerify(t, now)
    /\ t.sub \in 1..Len(app_users)
    /\ ~TokenStale(app_users[t.sub].password_updated_at, t.iat)

\* C21: the session validator takes the token from the access_token cookie
\* or from the Authorization: Bearer header; when both are present the cookie
\* token is verified and populates req.user; the header token is consulted
\* only when the cookie is absent.
C21_CookieBeforeBearer ==
    \A p \in Procs :
        AuthDone(p) =>
          LET used == IF loc[p].reqCookie # NoToken THEN loc[p].reqCookie
                      ELSE loc[p].reqBearer
          IN  /\ (used = NoToken =>
                     loc[p].status = 401 /\ loc[p].reason = "Not authenticated")
              /\ (used # NoToken => loc[p].tok = used)
              /\ ((used # NoToken /\ Acceptable(used)) => loc[p].v = "next")
              /\ (loc[p].v = "next" =>
                     /\ used # NoToken /\ used.sig = "JWT_SECRET"
                     /\ used.sub \in 1..Len(app_users)
                     /\ ~TokenStale(app_users[used.sub].password_updated_at, used.iat))
              /\ ((used # NoToken /\ loc[p].v # "next") => loc[p].status = 401)
              /\ (loc[p].v = "next" =>
                     /\ loc[p].reqUser.sub = used.sub
                     /\ loc[p].reqUser.email = used.email
                     /\ loc[p].reqUser.iat = used.iat)
              /\ (loc[p].v # "next" => loc[p].reqUser = NoReqUser)

C21_Witness ==
    \E p \in Procs :
        /\ AuthDone(p)
        /\ loc[p].reqCookie = ForgedToken
        /\ loc[p].reqBearer # NoToken /\ loc[p].reqBearer.purpose = ""
        /\ Acceptable(loc[p].reqBearer)
        /\ loc[p].tok = ForgedToken
        /\ loc[p].status = 401 /\ loc[p].reason = "Invalid or expired token"

\* p has answered a completeReset request that carried a token
ResetDone(p) ==
    pc[p] = "done" /\ loc[p].h = "completeReset" /\ loc[p].tok # NoToken

\* C26: completeReset changes a password only for a token that is validly
\* signed, unexpired and carries purpose password_reset; a session token or
\* an expired or invalid token yields 401 and leaves every User's password
\* hash and password-changed timestamp unchanged.
C26_ResetNeedsResetToken ==
    [][\A p \in Procs :
          (pc[p] = "idle" /\ pc'[p] = "done" /\ loc'[p].h = "completeReset"
           /\ loc'[p].tok # NoToken) =>
            IF jwtVerify(loc'[p].tok, now) /\ loc'[p].tok.purpose = "password_reset"
            THEN /\ loc'[p].status = 200
                 /\ \A i \in 1..Len(app_users) : i # loc'[p].tok.sub =>
                        app_users'[i] = app_users[i]
            ELSE /\ loc'[p].status = 401
                 /\ app_users' = app_users]_vars

C26_Witness ==
    \E p \in Procs :
        /\ ResetDone(p)
        /\ loc[p].tok.purpose = "" /\ jwtVerify(loc[p].tok, now)
        /\ loc[p].status = 401 /\ loc[p].reason = "Invalid reset token purpose"

\* C27: a reset token that has been used for one successful completeReset
\* does not change the password again when presented a second time.
C27_ResetTokenOnce ==
    \A p \in Procs : (ResetDone(p) /\ loc[p].usedBefore) => loc[p].status # 200

\* C28: a valid reset token presented to the auth middleware, as cookie or as
\* Bearer header, never yields an authenticated identity context.
C28_ResetTokenNoSession ==
    \A p \in Procs :
        (pc[p] = "done" /\ loc[p].h = "auth" /\ loc[p].tok.purpose = "password_reset")
        => (loc[p].v # "next" /\ loc[p].reqUser = NoReqUser)

\* C22: the response of request-password-reset does not depend on whether a
\* User exists for the email, also when the mail dispatch fails: it is 200
\* with the same message in every run.
C22_ResetResponseUniform ==
    \A p \in Procs :
        (pc[p] = "done" /\ loc[p].h = "requestReset") =>
            /\ loc[p].status = 200
            /\ loc[p].reason = "If that email exists, an OTP has been sent."

\* C23: when verifyAndConsumeOtp returns too_many_attempts, verify-login-OTP
\* and verify-reset-OTP answer 429; invalid and expired outcomes answer 401.
C23_TooManyIs429 ==
    \A p \in Procs :
        VerifyDone(p) =>
            /\ (loc[p].v = "too_many_attempts" => loc[p].status = 429)
            /\ (loc[p].v \in {"invalid", "expired"} => loc[p].status = 401)

\* C29: once a newer OTP record has been issued for a (user, purpose), the
\* code of an earlier record is never accepted again: the record that
\* verifyAndConsumeOtp accepts is the most recently issued one.
C29_NewerSupersedes ==
    \A p \in Procs :
        (VerifyDone(p) /\ loc[p].v = "ok") =>
            loc[p].rid = LatestAnyOtp(loc[p].uid, PurposeOf(loc[p].h))

\* C30: under any interleaving of concurrent verifyAndConsumeOtp calls on one
\* record, at most 5 candidate codes are ever compared against its hash.
C30_ComparesBounded ==
    \A r \in 1..Len(login_otps) : otpAudit[r].compares <= MAX_ATTEMPTS

\* the record the select of p's verifyAndConsumeOtp call returns
Selected(p) == LatestUnconsumedOtp(loc[p].uid, PurposeOf(loc[p].h))

\* C24: verifyAndConsumeOtp with the correct code for a fresh record returns
\* ok when called at any time up to the record's expiry instant and expired
\* at any time after it; an expired outcome neither consumes the record nor
\* increments its attempt counter.
C24_ExpiryBoundary ==
    /\ [](\A p \in Procs :
            VerifyDone(p) =>
              /\ ((loc[p].compared /\ loc[p].match) =>
                     /\ loc[p].v = "ok"
                     /\ login_otps[loc[p].rid].consumed_at # NULL)
              /\ (loc[p].v = "expired" =>
                     /\ ~loc[p].compared /\ ~loc[p].consumed
                     /\ login_otps[loc[p].rid].consumed_at = NULL
                     /\ login_otps[loc[p].rid].attempts = loc[p].att))
    /\ [][\A p \in Procs :
            (pc[p] = "vac_select" /\ pc'[p] # "vac_select" /\ Selected(p) # 0) =>
              IF login_otps[Selected(p)].expires_at < now
              THEN /\ pc'[p] = "done" /\ loc'[p].v = "expired"
                   /\ login_otps' = login_otps
              ELSE /\ loc'[p].v # "expired"
                   /\ ((/\ login_otps[Selected(p)].attempts = 0
                         /\ bcryptCompare(loc[p].otp, login_otps[Selected(p)].otp_hash))
                        => (pc'[p] = "vac_bump" /\ loc'[p].match))]_vars

C24_Witness ==
    \E p \in Procs :
        /\ VerifyDone(p) /\ loc[p].v = "ok" /\ loc[p].att = 0
        /\ login_otps[loc[p].rid].consumed_at = login_otps[loc[p].rid].expires_at

\* p has answered a login whose OTP was stored and whose mail dispatch failed
LoginMailFailed(p) ==
    /\ pc[p] = "done" /\ loc[p].h = "login"
    /\ loc[p].status = 500 /\ loc[p].reason = "Login ok, but failed to send OTP"

\* p has answered a verify-otp that immediately follows a login answered 500
\* and carries the code of the record that login stored
VerifyAfterMailFailure(p) ==
    /\ VerifyDone(p) /\ loc[p].h = "verifyOtp"
    /\ last.h = "login" /\ last.status = 500 /\ last.email = loc[p].email
    /\ login_otps # <<>>
    /\ bcryptCompare(loc[p].otp, login_otps[Len(login_otps)].otp_hash)

\* C25: when login has stored an OTP record and the mail dispatch fails, the
\* caller receives 500 and the record stays unconsumed with attempts 0; a
\* later verify-otp with its code within the TTL is accepted.
C25_OtpSurvivesMailFailure ==
    \A p \in Procs :
        /\ (LoginMailFailed(p) =>
               /\ loc[p].pwOk /\ loc[p].newOtp = Len(login_otps)
               /\ login_otps[loc[p].newOtp].user_id = loc[p].uid
               /\ login_otps[loc[p].newOtp].purpose = "login"
               /\ login_otps[loc[p].newOtp].consumed_at = NULL
               /\ login_otps[loc[p].newOtp].attempts = 0
               /\ loc[p].cookie = NoToken)
        /\ ((pc[p] = "done" /\ loc[p].h = "login" /\ loc[p].status = 500) =>
               LoginMailFailed(p))
        /\ (VerifyAfterMailFailure(p) =>
               /\ loc[p].rid = Len(login_otps)
               /\ loc[p].v \in {"ok", "expired"}
               /\ (loc[p].v = "expired" => OtpExpired(login_otps[loc[p].rid], now))
               /\ (loc[p].v = "ok" => loc[p].cookie # NoToken))

C25_Witness ==
    \E p \in Procs :
        VerifyAfterMailFailure(p) /\ loc[p].v = "ok" /\ loc[p].cookie # NoToken

\* the login_otps rows of a purpose
RowsOf(purpose) == {i \in 1..Len(login_otps) : login_otps[i].purpose = purpose}

\* C31: OTP purposes are isolated: verifyAndConsumeOtp for one purpose only
\* ever selects, compares, counts and consumes a record of that purpose and
\* of that user, it returns ok only for the code of such a record, and every
\* step of it leaves the records of the other purpose unchanged.
C31_PurposesIsolated ==
    /\ [](\A p \in Procs :
            (loc[p].h \in {"verifyOtp", "verifyResetOtp"} /\ loc[p].rid # 0) =>
              /\ login_otps[loc[p].rid].purpose = PurposeOf(loc[p].h)
              /\ login_otps[loc[p].rid].user_id = loc[p].uid
              /\ (loc[p].v = "ok" =>
                    bcryptCompare(loc[p].otp, login_otps[loc[p].rid].otp_hash)))
    /\ [](\A p \in Procs :
            (VerifyDone(p) /\ RowsOf(PurposeOf(loc[p].h)) = {}) =>
                (loc[p].v = "invalid" /\ loc[p].rid = 0 /\ ~loc[p].compared))
    /\ [][\A p \in Procs :
            (pc[p] \in {"vac_select", "vac_bump", "vac_consume"} /\ pc'[p] # pc[p]) =>
              \A i \in 1..Len(login_otps) :
                 login_otps[i].purpose # PurposeOf(loc[p].h) =>
                    (login_otps'[i] = login_otps[i] /\ otpAudit'[i] = otpAudit[i])]_vars

\* a reset verification that tried the code of the outstanding login record,
\* which is not the reset code, and left the login record as it was
C31_Witness ==
    \E p \in Procs : \E i \in RowsOf("login") : \E j \in RowsOf("reset") :
        /\ VerifyDone(p) /\ loc[p].h = "verifyResetOtp"
        /\ bcryptCompare(loc[p].otp, login_otps[i].otp_hash)
        /\ ~bcryptCompare(loc[p].otp, login_otps[j].otp_hash)
        /\ loc[p].v = "invalid" /\ loc[p].rid = j
        /\ login_otps[j].attempts = 1
        /\ login_otps[i].attempts = 0 /\ login_otps[i].consumed_at = NULL

\* user i has had a reset-purpose OTP consumed by a verification that
\* returned ok
ResetOtpConsumed(i) ==
    \E r \in 1..Len(login_otps) :
        /\ login_otps[r].user_id = i /\ login_otps[r].purpose = "reset"
        /\ login_otps[r].consumed_at # NULL /\ otpAudit[r].oks >= 1

\* C32: the password hash and the password-changed timestamp of an existing
\* User change only in a step of completeReset that answers 200 for a reset
\* token of that user, and only after a reset-purpose OTP of that user has
\* been consumed; no step of login, registration, the OAuth callback or
\* logout changes them, and no row is ever removed.
C32_PasswordOnlyByReset ==
    [][/\ Len(app_users') >= Len(app_users)
       /\ \A i \in 1..Len(app_users) :
            (\/ app_users'[i].password_hash # app_users[i].password_hash
             \/ app_users'[i].password_updated_at # app_users[i].password_updated_at) =>
              \E p \in Procs :
                 /\ pc[p] = "idle" /\ pc'[p] = "done"
                 /\ loc'[p].h = "completeReset" /\ loc'[p].status = 200
                 /\ loc'[p].tok.sub = i /\ loc'[p].tok.purpose = "password_reset"
                 /\ ResetOtpConsumed(i)]_vars

\* completeReset has given a new password to a user linked to a Google account
C32_Witness ==
    \E p \in Procs :
        /\ pc[p] = "done" /\ loc[p].h = "completeReset" /\ loc[p].status = 200
        /\ app_users[loc[p].uid].password_hash = bcryptHash("Pw2")
        /\ app_users[loc[p].uid].google_sub # ""
        /\ ResetOtpConsumed(loc[p].uid)

\* the awaits of googleCallback after the identity checks
LinkingSteps == {"gc_findSub", "gc_findEmail", "gc_link", "gc_update", "gc_create"}

\* the steps that can follow a step of googleCallback
CallbackOrder(step) ==
    IF step = "idle" THEN {"gc_exchange", "done"}
    ELSE IF step = "gc_exchange" THEN {"gc_findSub", "done"}
    ELSE IF step = "gc_findSub" THEN {"gc_findEmail", "done"}
    ELSE IF step = "gc_findEmail" THEN {"gc_link", "gc_update", "gc_create", "done"}
    ELSE IF step = "gc_link" THEN {"gc_update"}
    ELSE IF step \in {"gc_update", "gc_create"} THEN {"done"}
    ELSE {"idle"}

\* C33: the OAuth callback issues a session only after the state check, the
\* code exchange, the identity checks and the linking or creation of the User
\* have succeeded, in that order; a failure answers at once, writes nothing
\* and sets no session cookie; every callback ends with one response that
\* either carries the session cookie or reports a failure.
C33_CallbackOrder ==
    /\ [](\A p \in Procs : loc[p].h = "googleCallback" =>
            /\ pc[p] # "idle"
            /\ (pc[p] = "gc_exchange" =>
                   loc[p].g.stateOk /\ ~loc[p].g.exchanged /\ ~loc[p].g.checked)
            /\ (pc[p] \in LinkingSteps =>
                   /\ loc[p].g.stateOk /\ loc[p].g.exchanged /\ loc[p].g.verified
                   /\ loc[p].g.checked /\ loc[p].g.idValid
                   /\ loc[p].g.code \in redeemed)
            /\ (pc[p] # "done" => loc[p].g.error = "" /\ loc[p].cookie = NoToken)
            /\ (pc[p] = "done" => (loc[p].g.error = "" <=> loc[p].cookie # NoToken))
            /\ (loc[p].cookie # NoToken =>
                   /\ loc[p].g.stateOk /\ loc[p].g.exchanged /\ loc[p].g.verified
                   /\ loc[p].g.checked /\ loc[p].g.idValid
                   /\ loc[p].uid \in 1..Len(app_users)
                   /\ app_users[loc[p].uid].email = loc[p].cookie.email
                   /\ loc[p].cookie.sub = loc[p].uid))
    /\ [][\A p \in Procs :
            (pc'[p] # pc[p] /\ (loc[p].h = "googleCallback" \/ loc'[p].h = "googleCallback")) =>
              /\ pc'[p] \in CallbackOrder(pc[p])
              /\ (loc'[p].g.error # "" => app_users' = app_users)]_vars

\* a callback that linked the Google account to the password user and issued
\* the session
C33_Witness ==
    \E p \in Procs :
        /\ CallbackDone(p) /\ loc[p].cookie # NoToken
        /\ loc[p].g.existing # 0 /\ loc[p].g.wrote
        /\ app_users[loc[p].uid].password_hash = bcryptHash("Pw1")

\* C34: the transient OAuth state is single-use: the response of every
\* callback, successful or not, removes the g_state, g_nonce and g_mode
\* cookies from the user agent; a callback the agent sends after that, with
\* whatever code and state, is rejected as invalid state before any exchange;
\* between two Starts the agent is issued at most one session.
C34_StateSingleUse ==
    /\ [](client.issued <= 1 /\ (client.g_state # NoState => client.issued = 0))
    /\ [][\A p \in Procs :
            /\ (CallbackDone(p) /\ pc'[p] = "idle") =>
                  /\ client'.g_state = NoState
                  /\ client'.g_nonce = "" /\ client'.g_mode = ""
            /\ (pc[p] = "idle" /\ loc'[p].h = "googleCallback"
                /\ client.g_state = NoState) =>
                  /\ pc'[p] = "done"
                  /\ loc'[p].g.error = "Invalid OAuth state"
                  /\ loc'[p].cookie = NoToken /\ ~loc'[p].g.exchanged]_vars

\* after the flow has issued its session, a replayed callback with the code
\* that was exchanged is answered "Invalid OAuth state"
C34_Witness ==
    \E p \in Procs :
        /\ CallbackDone(p) /\ client.issued = 1 /\ client.access_token # NoToken
        /\ loc[p].g.code \in redeemed
        /\ loc[p].g.error = "Invalid OAuth state" /\ loc[p].cookie = NoToken

\* C35: the identity the middleware attaches carries the role stored for the
\* token's subject at the time of the request, whatever role the token was
\* signed with; a validly signed token whose subject has no stored User is
\* answered 401 and attaches nothing.
C35_RoleFromStore ==
    \A p \in Procs : AuthDone(p) =>
        /\ (loc[p].v = "next" =>
               /\ loc[p].tok.sub \in 1..Len(app_users)
               /\ loc[p].reqUser.sub = loc[p].tok.sub
               /\ loc[p].reqUser.role = app_users[loc[p].tok.sub].role)
        /\ ((loc[p].tok # NoToken /\ loc[p].tok.sub \notin 1..Len(app_users)) =>
               /\ loc[p].status = 401 /\ loc[p].v # "next"
               /\ loc[p].reqUser = NoReqUser)
        /\ ((jwtVerify(loc[p].tok, now) /\ loc[p].tok.sub \notin 1..Len(app_users)) =>
               loc[p].reason = "User not found")

\* a token signed with role user is accepted after the stored role became
\* admin, and the request carries admin
C35_Witness ==
    \E p \in Procs :
        /\ AuthDone(p) /\ loc[p].v = "next"
        /\ loc[p].tok.role = "user" /\ loc[p].reqUser.role = "admin"

\* C36: token extraction never falls through from a cookie to the header:
\* when the access_token cookie carries a value, that value is the token the
\* middleware verifies; if it does not verify, the request is answered 401
\* "Invalid or expired token" and attaches nothing, even when the
\* Authorization header carries a token that would have been accepted.
C36_NoFallThrough ==
    /\ [](\A p \in Procs :
            (AuthDone(p) /\ loc[p].reqCookie # NoToken) =>
               /\ loc[p].tok = loc[p].reqCookie
               /\ (loc[p].v = "next" =>
                     /\ loc[p].reqCookie.sig = "JWT_SECRET"
                     /\ loc[p].reqUser.sub = loc[p].reqCookie.sub
                     /\ loc[p].reqUser.iat = loc[p].reqCookie.iat))
    /\ [][\A p \in Procs :
            (/\ pc[p] = "idle" /\ loc'[p].h = "auth"
             /\ loc'[p].reqCookie # NoToken
             /\ ~jwtVerify(loc'[p].reqCookie, now)) =>
               /\ pc'[p] = "done" /\ loc'[p].status = 401
               /\ loc'[p].reason = "Invalid or expired token"
               /\ loc'[p].v # "next" /\ loc'[p].reqUser = NoReqUser]_vars

\* a request with an expired session cookie and a header token that the
\* middleware would accept is answered 401
C36_Witness ==
    \E p \in Procs :
        /\ AuthDone(p)
        /\ loc[p].reqCookie.sig = "JWT_SECRET" /\ ~jwtVerify(loc[p].reqCookie, now)
        /\ loc[p].reqBearer # NoToken /\ Acceptable(loc[p].reqBearer)
        /\ loc[p].reqBearer.purpose = ""
        /\ loc[p].status = 401 /\ loc[p].reason = "Invalid or expired token"

\* C37: there is one live registration code per email: every User that
\* verifyRegisterOtp has created was accepted on the code stored last for its
\* email and carries the name and password hash stored last for it.
C37_OneLiveCode ==
    \A i \in 1..Len(app_users) :
        userAudit[i].by = "verifyRegisterOtp" =>
           /\ userAudit[i].otp_hash = PendingRow(app_users[i].email).otp_hash
           /\ app_users[i].password_hash = PendingRow(app_users[i].email).password_hash
           /\ app_users[i].name = PendingRow(app_users[i].email).name

\* the password of the subject of token t has never been changed
NeverReset(t) == t.sub \in 1..Len(userAudit) /\ userAudit[t.sub].resets = {}

\* C38: logout answers 204, clears the session cookie and writes nothing to
\* the store; a session token presented as Bearer header without a cookie is
\* accepted whenever it has not expired and the user's password has not been
\* changed, whether or not the agent has logged out, and is rejected once it
\* has expired.
C38_LogoutKeepsValidity ==
    [][\A p \in Procs :
         /\ (pc[p] = "idle" /\ loc'[p].h = "logout") =>
               /\ pc'[p] = "done" /\ loc'[p].status = 204 /\ loc'[p].clearAuth
               /\ loc'[p].cookie = NoToken
               /\ app_users' = app_users /\ login_otps' = login_otps
               /\ pending_registrations' = pending_registrations
         /\ (pc[p] = "done" /\ loc[p].h = "logout" /\ pc'[p] = "idle") =>
               client'.access_token = NoToken
         /\ (/\ pc[p] = "idle" /\ loc'[p].h = "auth"
             /\ loc'[p].reqCookie = NoToken
             /\ loc'[p].reqBearer \in IssuedSessions) =>
               /\ ((jwtVerify(loc'[p].reqBearer, now) /\ NeverReset(loc'[p].reqBearer))
                      => (loc'[p].v = "next"
                          /\ loc'[p].reqUser.sub = loc'[p].reqBearer.sub))
               /\ (loc'[p].v = "next" => jwtVerify(loc'[p].reqBearer, now))]_vars

\* after logout has cleared the cookie, the session token issued before it
\* is presented as Bearer header and accepted
C38_Witness ==
    \E p \in Procs :
        /\ AuthDone(p) /\ loc[p].v = "next"
        /\ client.access_token = NoToken
        /\ loc[p].reqCookie = NoToken /\ loc[p].reqBearer \in IssuedSessions
        /\ loc[p].reqUser.sub = loc[p].reqBearer.sub

\* the Users stored for an email
UsersOf(email) == {i \in 1..Len(app_users) : app_users[i].email = email}

\* C39: when verifyRegisterOtp has matched the code and findUserByEmail then
\* finds a User for the email, the handler marks the pending registration
\* consumed and answers 409: it inserts no User and sets no session cookie.
C39_ConflictAtPromotion ==
    /\ [](\A p \in Procs :
            (pc[p] = "done" /\ loc[p].h = "verifyRegisterOtp" /\ loc[p].status = 409) =>
               /\ loc[p].match /\ loc[p].cookie = NoToken /\ loc[p].newUser = 0
               /\ loc[p].reason = "User with this email already exists"
               /\ PendingRow(loc[p].email).consumed_at # NULL
               /\ Cardinality(UsersOf(loc[p].email)) = 1)
    /\ [][\A p \in Procs :
            /\ (pc[p] = "vr_find" /\ pc'[p] # pc[p]) =>
                  /\ loc[p].match
                  /\ pc'[p] = IF UsersOf(loc[p].email) # {} THEN "vr_conflict"
                              ELSE "vr_insert"
            /\ (pc[p] = "vr_conflict" /\ pc'[p] # pc[p]) =>
                  /\ pc'[p] = "done" /\ loc'[p].status = 409
                  /\ app_users' = app_users
                  /\ loc'[p].cookie = NoToken
                  /\ pending_registrations'[loc[p].email].consumed_at # NULL]_vars

\* a registration was started, the OAuth callback created the User, and the
\* verification with the correct code is answered 409
C39_Witness ==
    \E p \in Procs : \E i \in UsersOf(loc[p].email) :
        /\ pc[p] = "done" /\ loc[p].h = "verifyRegisterOtp" /\ loc[p].status = 409
        /\ loc[p].match /\ loc[p].cookie = NoToken
        /\ userAudit[i].by = "googleCallback"
        /\ PendingRow(loc[p].email).consumed_at # NULL
====
